---- MODULE Spec2Model ----
(***************************************************************************)
(* The Chat page of likhai-pluma-chat (src/unnamed/part_004): the          *)
(* transcript (React state `messages`), the step index registry            *)
(* (`stepIdxRef`), the send action and the event handlers of the chat,     *)
(* deep_research, reasoning and file-upload streams.                       *)
(*                                                                         *)
(* Text is a sequence of units.  A unit is one character ("a", "B", " ")   *)
(* or one literal of a template of the source that ends in a character     *)
(* that is neither alphanumeric nor whitespace ("Starting deep             *)
(* research..."); the literal "Final summary" is one unit and is always      *)
(* followed by the unit "\n\n", as in the source's templates.              *)
(*                                                                         *)
(* React applies the updater functions given to setMessages when it next   *)
(* renders, in the order they were queued.  `queue` holds the updaters     *)
(* that event handlers and fetch completions have queued; Render applies   *)
(* them one per step while `flushing` keeps every handler out, so that a   *)
(* render is atomic with respect to the handlers.  send() and the thread   *)
(* switch run in discrete user events, whose updates React renders before  *)
(* anything else runs.                                                     *)
(***************************************************************************)
EXTENDS Integers, Sequences, FiniteSets, TLC

\* ------------------------------------------------------------------ text

Upper == {"A","B","C","D","E","F","G","H","I","J","K","L","M",
          "N","O","P","Q","R","S","T","U","V","W","X","Y","Z"}
Lower == {"a","b","c","d","e","f","g","h","i","j","k","l","m",
          "n","o","p","q","r","s","t","u","v","w","x","y","z"}
Digit == {"0","1","2","3","4","5","6","7","8","9"}
Space == {" ", "\n", "\n\n", "\t"}

\* /\s/
IsSpace(u) == u \in Space
\* /[A-Za-z0-9]/
IsAlnum(u) == u \in Upper \cup Lower \cup Digit
\* /[A-Z0-9]/
IsCapOrDigit(u) == u \in Upper \cup Digit

RECURSIVE TrimLeft(_)
TrimLeft(s) == IF s = <<>> THEN <<>>
               ELSE IF IsSpace(Head(s)) THEN TrimLeft(Tail(s)) ELSE s

RECURSIVE TrimRight(_)
TrimRight(s) == IF s = <<>> THEN <<>>
                ELSE IF IsSpace(s[Len(s)]) THEN TrimRight(SubSeq(s, 1, Len(s) - 1)) ELSE s

\* fmt(s) = (s || "").trim()
fmt(s) == TrimRight(TrimLeft(s))

\* a || b on strings: the empty string is falsy
Or(a, b) == IF a # <<>> THEN a ELSE b

\* prevText.match(/[A-Za-z0-9]+$/): the trailing alphanumeric run
RECURSIVE LastToken(_)
LastToken(s) == IF s = <<>> \/ ~IsAlnum(s[Len(s)]) THEN <<>>
                ELSE LastToken(SubSeq(s, 1, Len(s) - 1)) \o <<s[Len(s)]>>

\* chunk.match(/^[A-Za-z0-9]+/): the leading alphanumeric run
RECURSIVE FirstToken(_)
FirstToken(s) == IF s = <<>> \/ ~IsAlnum(Head(s)) THEN <<>>
                 ELSE <<Head(s)>> \o FirstToken(Tail(s))

\* /^[A-Z0-9]+$/
isAllCapsOrDigits(s) == s # <<>> /\ \A i \in 1..Len(s) : IsCapOrDigit(s[i])

\* /^[A-Z][a-z]/
firstTokenStartsUpperThenLower(s) == Len(s) >= 2 /\ s[1] \in Upper /\ s[2] \in Lower

\* Faulty joiners, for comparison.  No acronym rule: a space at every
\* alphanumeric boundary
concatChunk_AlwaysSpace(prevText, chunk) ==
  IF chunk = <<>> THEN prevText
  ELSE IF prevText = <<>> THEN chunk
  ELSE IF IsSpace(prevText[Len(prevText)]) \/ IsSpace(Head(chunk)) THEN prevText \o chunk
  ELSE IF IsAlnum(prevText[Len(prevText)]) /\ IsAlnum(Head(chunk))
       THEN prevText \o <<" ">> \o chunk
       ELSE prevText \o chunk

\* The whitespace rule looks at the chunk only
concatChunk_SpaceBeforeWord(prevText, chunk) ==
  IF chunk = <<>> THEN prevText
  ELSE IF prevText = <<>> THEN chunk
  ELSE IF IsSpace(Head(chunk)) THEN prevText \o chunk
  ELSE IF IsAlnum(Head(chunk))
       THEN IF isAllCapsOrDigits(LastToken(prevText)) /\ isAllCapsOrDigits(FirstToken(chunk))
            THEN prevText \o chunk
            ELSE prevText \o <<" ">> \o chunk
       ELSE prevText \o chunk

\* A space before capitalized words only
concatChunk_OnlyCapitalized(prevText, chunk) ==
  IF chunk = <<>> THEN prevText
  ELSE IF prevText = <<>> THEN chunk
  ELSE IF IsSpace(prevText[Len(prevText)]) \/ IsSpace(Head(chunk)) THEN prevText \o chunk
  ELSE IF IsAlnum(prevText[Len(prevText)]) /\ IsAlnum(Head(chunk))
       THEN IF isAllCapsOrDigits(LastToken(prevText)) /\ isAllCapsOrDigits(FirstToken(chunk))
            THEN prevText \o chunk
            ELSE IF firstTokenStartsUpperThenLower(FirstToken(chunk))
                 THEN prevText \o <<" ">> \o chunk
                 ELSE prevText \o chunk
       ELSE prevText \o chunk

\* A space at a punctuation boundary too
concatChunk_SpaceAfterPunctuation(prevText, chunk) ==
  IF chunk = <<>> THEN prevText
  ELSE IF prevText = <<>> THEN chunk
  ELSE IF IsSpace(prevText[Len(prevText)]) \/ IsSpace(Head(chunk)) THEN prevText \o chunk
  ELSE IF IsAlnum(prevText[Len(prevText)]) /\ IsAlnum(Head(chunk))
            /\ isAllCapsOrDigits(LastToken(prevText)) /\ isAllCapsOrDigits(FirstToken(chunk))
       THEN prevText \o chunk
       ELSE prevText \o <<" ">> \o chunk

\* concatChunk (part_004:97-131)
concatChunk(prevText, chunk) ==
  IF chunk = <<>> THEN prevText
  ELSE IF prevText = <<>> THEN chunk
  ELSE IF IsSpace(prevText[Len(prevText)]) \/ IsSpace(Head(chunk)) THEN prevText \o chunk
  ELSE IF IsAlnum(prevText[Len(prevText)]) /\ IsAlnum(Head(chunk))
       THEN IF isAllCapsOrDigits(LastToken(prevText)) /\ isAllCapsOrDigits(FirstToken(chunk))
            THEN prevText \o chunk
            ELSE IF firstTokenStartsUpperThenLower(FirstToken(chunk))
                 THEN prevText \o <<" ">> \o chunk
                 ELSE prevText \o <<" ">> \o chunk
       ELSE prevText \o chunk

\* The token handlers of pages/Chat.tsx (195-211, 302-315, 506-523) join in
\* line: a space whenever both boundary characters are alphanumeric
inlineJoin(prevText, chunk) ==
  IF prevText # <<>> /\ chunk # <<>>
     /\ IsAlnum(prevText[Len(prevText)]) /\ IsAlnum(Head(chunk))
  THEN prevText \o <<" ">> \o chunk
  ELSE prevText \o chunk

\* last.content.startsWith("Final summary")
StartsWithFinalSummary(c) == c # <<>> /\ c[1] = "Final summary"

\* ------------------------------------------------------------- messages

\* Msg (part_004:10-20).  pending and completed are optional in the source;
\* an absent flag and a false one are the same to every reader of the flag.
\* attachments: "absent" (no field), "none" ([]) or "files".
Msg(role, content, pending, completed, attachments) ==
  [role |-> role, content |-> content, pending |-> pending,
   completed |-> completed, attachments |-> attachments]

UserMsg(content) == Msg("user", content, FALSE, FALSE, "absent")
AssistantMsg(content, pending, completed) == Msg("assistant", content, pending, completed, "absent")

\* last?.role === "assistant"
LastIsAssistant(m) == m # <<>> /\ m[Len(m)].role = "assistant"
\* last?.role === "assistant" && !last.content
LastIsEmptyAssistant(m) == LastIsAssistant(m) /\ m[Len(m)].content = <<>>
\* last?.role === "assistant" && (!last.content || String(last.content).trim() === "")
LastIsBlankAssistant(m) == LastIsAssistant(m) /\ fmt(m[Len(m)].content) = <<>>

\* ------------------------------------------------- the step index registry

NoKey == ""

\* stepIdxRef.current[key] = idx.  Indices are 0-based as in the source.
Remember(ref, key, idx) ==
  IF key = NoKey THEN ref
  ELSE [k \in DOMAIN ref \cup {key} |-> IF k = key THEN idx ELSE ref[k]]

\* stepIdxRef.current[key] !== undefined
Registered(ref, key) == key \in DOMAIN ref

\* stepIdxRef.current = {}
EmptyRef == [k \in {} |-> 0]

\* --------------------------------------------------------------- updaters

\* One updater function queued with setMessages.
Op(op, content, pending, completed, key, list) ==
  [op |-> op, content |-> content, pending |-> pending, completed |-> completed,
   key |-> key, list |-> list]

OpOptimistic(text)                      == Op("optimistic", text, FALSE, FALSE, NoKey, <<>>)
OpPush(content, pending, key)           == Op("push", content, pending, FALSE, key, <<>>)
OpReplaceOrPush(content, pending, completed, key) == Op("replaceOrPush", content, pending, completed, key, <<>>)
OpReplaceStep(key, content, pending, completed)   == Op("replaceStep", content, pending, completed, key, <<>>)
OpToken(chunk)                          == Op("token", chunk, FALSE, FALSE, NoKey, <<>>)
OpTokenInline(chunk)                    == Op("tokenInline", chunk, FALSE, FALSE, NoKey, <<>>)
OpError(msg)                            == Op("error", msg, FALSE, FALSE, NoKey, <<>>)
OpAnnotate(text)                        == Op("annotate", text, FALSE, FALSE, NoKey, <<>>)
OpFinal(finalText)                      == Op("final", finalText, FALSE, FALSE, NoKey, <<>>)
OpAppend(content)                       == Op("append", content, FALSE, FALSE, NoKey, <<>>)
OpSet(list)                             == Op("set", <<>>, FALSE, FALSE, NoKey, list)
OpAppendPart(content, part)             == Op("appendPart", content, FALSE, FALSE, NoKey, <<part>>)

SetLast(m, msg) == [m EXCEPT ![Len(m)] = msg]

\* setMessages((prev) => [...prev, {role:"user",...}, {role:"assistant", content:""}])
optimisticAppend(m, ref, o) ==
  [m |-> m \o <<UserMsg(o.content), AssistantMsg(<<>>, FALSE, FALSE)>>, r |-> ref]

\* A faulty pushAssistantMsg, for comparison: it fills the empty placeholder
pushAssistantMsg_Absorbs(m, ref, o) ==
  IF LastIsEmptyAssistant(m)
  THEN [m |-> SetLast(m, AssistantMsg(o.content, o.pending, FALSE)),
        r |-> Remember(ref, o.key, Len(m) - 1)]
  ELSE [m |-> Append(m, AssistantMsg(o.content, o.pending, FALSE)),
        r |-> Remember(ref, o.key, Len(m))]

\* pushAssistantMsg (part_004:53-59)
pushAssistantMsg(m, ref, o) ==
  [m |-> Append(m, AssistantMsg(o.content, o.pending, FALSE)),
   r |-> Remember(ref, o.key, Len(m))]

replaceOrPushAssistant(m, ref, o) ==
  IF LastIsBlankAssistant(m)
  THEN [m |-> SetLast(m, [m[Len(m)] EXCEPT !.content = o.content,
                                           !.pending = o.pending,
                                           !.completed = o.completed]),
        r |-> Remember(ref, o.key, Len(m) - 1)]
  ELSE [m |-> Append(m, AssistantMsg(o.content, o.pending, o.completed)),
        r |-> Remember(ref, o.key, Len(m))]

\* A faulty replaceStep, for comparison: it appends the step when it cannot
\* find the message
replaceStep_AppendsFallback(m, ref, o) ==
  IF Registered(ref, o.key) /\ ref[o.key] < Len(m)
  THEN [m |-> [m EXCEPT ![ref[o.key] + 1] =
                 [@ EXCEPT !.content = o.content, !.pending = o.pending,
                           !.completed = o.completed]],
        r |-> ref]
  ELSE [m |-> Append(m, AssistantMsg(o.content, o.pending, o.completed)), r |-> ref]

\* A faulty replaceStep, for comparison: it sets the flags it is given and
\* never clears the other one
replaceStep_KeepsFlags(m, ref, o) ==
  IF ~Registered(ref, o.key) THEN [m |-> m, r |-> ref]
  ELSE IF ref[o.key] >= Len(m) THEN [m |-> m, r |-> ref]
  ELSE [m |-> [m EXCEPT ![ref[o.key] + 1] = [@ EXCEPT !.content = o.content,
                                                      !.pending = @ \/ o.pending,
                                                      !.completed = @ \/ o.completed]],
        r |-> ref]

\* replaceStep: idx undefined or no message at idx returns prev
replaceStep(m, ref, o) ==
  IF ~Registered(ref, o.key) THEN [m |-> m, r |-> ref]
  ELSE IF ref[o.key] >= Len(m) THEN [m |-> m, r |-> ref]
  ELSE [m |-> [m EXCEPT ![ref[o.key] + 1] = [@ EXCEPT !.content = o.content,
                                                      !.pending = o.pending,
                                                      !.completed = o.completed]],
        r |-> ref]

\* A faulty token updater, for comparison: the chunk is appended as it is
tokenUpdate_Plain(m, ref, o) ==
  IF LastIsAssistant(m)
  THEN [m |-> SetLast(m, [m[Len(m)] EXCEPT !.content = @ \o o.content]), r |-> ref]
  ELSE [m |-> m, r |-> ref]

\* A faulty token updater, for comparison: with no assistant message to
\* extend it opens one
tokenUpdate_Opens(m, ref, o) ==
  IF LastIsAssistant(m)
  THEN [m |-> SetLast(m, [m[Len(m)] EXCEPT !.content = concatChunk(@, o.content)]), r |-> ref]
  ELSE [m |-> Append(m, AssistantMsg(o.content, FALSE, FALSE)), r |-> ref]

\* token: last.content = concatChunk(last.content || "", chunk)
tokenUpdate(m, ref, o) ==
  IF LastIsAssistant(m)
  THEN [m |-> SetLast(m, [m[Len(m)] EXCEPT !.content = concatChunk(@, o.content)]), r |-> ref]
  ELSE [m |-> m, r |-> ref]

\* token in pages/Chat.tsx: last.content += " " + chunk, or += chunk
tokenUpdateInline(m, ref, o) ==
  IF LastIsAssistant(m)
  THEN [m |-> SetLast(m, [m[Len(m)] EXCEPT !.content = inlineJoin(@, o.content)]), r |-> ref]
  ELSE [m |-> m, r |-> ref]

\* A faulty error updater, for comparison: the warning overwrites whatever
\* the last assistant message holds
errorUpdate_Overwrites(m, ref, o) ==
  IF LastIsAssistant(m)
  THEN [m |-> SetLast(m, [m[Len(m)] EXCEPT !.content = o.content]), r |-> ref]
  ELSE [m |-> m, r |-> ref]

\* error event and transport error: if (last?.role === "assistant" && !last.content) last.content = msg
errorUpdate(m, ref, o) ==
  IF LastIsEmptyAssistant(m)
  THEN [m |-> SetLast(m, [m[Len(m)] EXCEPT !.content = o.content]), r |-> ref]
  ELSE [m |-> m, r |-> ref]

\* chat thinking / debug: last.content = (last.content || "") + "\n\n[...]\n" + text
annotateUpdate(m, ref, o) ==
  IF LastIsAssistant(m)
  THEN [m |-> SetLast(m, [m[Len(m)] EXCEPT !.content = @ \o o.content]), r |-> ref]
  ELSE [m |-> m, r |-> ref]

\* deep_research done: append the final summary unless the last message starts with it
finalUpdate(m, ref, o) ==
  IF LastIsAssistant(m) /\ StartsWithFinalSummary(m[Len(m)].content)
  THEN [m |-> m, r |-> ref]
  ELSE [m |-> Append(m, AssistantMsg(o.content, FALSE, FALSE)), r |-> ref]

\* setMessages((prev) => [...prev, { role: "assistant", content }])
appendUpdate(m, ref, o) == [m |-> Append(m, AssistantMsg(o.content, FALSE, FALSE)), r |-> ref]

\* setMessages((prev) => [...prev, { role: "assistant", content, figure | dataTable | stats }])
\* (eda): `part` names the field the message carries besides its content
appendPartUpdate(m, ref, o) ==
  [m |-> Append(m, [role |-> "assistant", content |-> o.content, pending |-> FALSE,
                    completed |-> FALSE, attachments |-> "absent", part |-> o.list[1]]),
   r |-> ref]

\* setMessages(history): the transcript is replaced; stepIdxRef is not touched
setUpdate(m, ref, o) == [m |-> o.list, r |-> ref]

\* The updater `o` run on transcript m with registry ref
ApplyOp(m, ref, o) ==
  CASE o.op = "optimistic"    -> optimisticAppend(m, ref, o)
    [] o.op = "push"          -> pushAssistantMsg(m, ref, o)
    [] o.op = "replaceOrPush" -> replaceOrPushAssistant(m, ref, o)
    [] o.op = "replaceStep"   -> replaceStep(m, ref, o)
    [] o.op = "token"         -> tokenUpdate(m, ref, o)
    [] o.op = "tokenInline"   -> tokenUpdateInline(m, ref, o)
    [] o.op = "error"         -> errorUpdate(m, ref, o)
    [] o.op = "annotate"      -> annotateUpdate(m, ref, o)
    [] o.op = "final"         -> finalUpdate(m, ref, o)
    [] o.op = "append"        -> appendUpdate(m, ref, o)
    [] o.op = "appendPart"    -> appendPartUpdate(m, ref, o)
    [] o.op = "set"           -> setUpdate(m, ref, o)

\* ----------------------------------------------------------- event frames

\* The data of a frame: `text` is the string on the wire (String(ev.data || "")),
\* `json` says what JSON.parse(text) gives: an object, null, or a SyntaxError
\* ("invalid", which is also what the empty string gives); the remaining
\* fields are those of the parsed object, <<>> for one that is missing or "".
Fields == {"detail", "summary", "thoughts", "thought", "query", "rationale",
           "knowledge_gap", "message", "markdown", "raw"}

Raw(text) == [json |-> "invalid", text |-> text, f |-> [k \in Fields |-> <<>>],
              sources |-> <<>>, images |-> <<>>]
Null      == [json |-> "null", text |-> <<"n","u","l","l">>, f |-> [k \in Fields |-> <<>>],
              sources |-> <<>>, images |-> <<>>]
\* A JSON object with the text fields of record r, the list `sources` of
\* {title, url} and the list `images` of urls; its text is not empty and not blank
ObjWith(r, sources, images) ==
  [json |-> "object", text |-> <<"{}">>,
   f |-> [k \in Fields |-> IF k \in DOMAIN r THEN r[k] ELSE <<>>],
   sources |-> sources, images |-> images]
Obj(r) == ObjWith(r, <<>>, <<>>)

Ev(type, data) == [type |-> type, data |-> data]

\* safeJSON(s) || {} and parsed?.x : the field x of the parsed object, <<>> if there is none
Field(d, k) == IF d.json = "object" THEN d.f[k] ELSE <<>>

\* JSON.parse(String(ev.data || "{}")) throws
ParseOrEmptyThrows(d) == d.json = "invalid" /\ d.text # <<>>

\* --------------------------------------------------------------- templates
\* (the warning sign of the source is written (!), its ellipsis ...)

Warning         == <<"(!) Sorry, something went wrong.">>
WarningOf(detail) == <<"(!)", " ">> \o detail
StreamError     == <<"stream ", "e", "r", "r", "o", "r">>
StartingResearch == <<"Starting deep research...">>
ResearchComplete == <<"Deep Research ", "C", "o", "m", "p", "l", "e", "t", "e">>
StartingReasoning == <<"Starting reasoning...">>
ReasoningComplete == <<"Reasoning ", "C", "o", "m", "p", "l", "e", "t", "e">>
SearchingWeb    == <<"Searching the web...">>
Summarizing     == <<"Summarizing sources...">>
Reflecting      == <<"Reflecting on gaps...">>
ThinkingStep(t) == <<"Step: Thinking", "\n\n">> \o t
InitialQuery(q, r) == <<"Step: Initial query", "\n\n", "Query:", " ">> \o q \o <<"\n", "Rationale:", " ">> \o r
SummaryUpdate(t) == <<"Step: Summary update", "\n\n">> \o t
ReflectionStep(gap, q) ==
  <<"Step: Reflection", "\n\n", "Knowledge gap:", " ">> \o gap \o <<"\n", "Follow-up query:", " ">> \o q
FinalSummary(t) == <<"Final summary", "\n\n">> \o t

\* imgs.map((u,i) => `Image ${i+1}: ${u}`).join("\n") of p.images.slice(0,2)
RECURSIVE ImgLines(_, _)
ImgLines(images, i) ==
  IF i > Len(images) \/ i > 2 THEN <<>>
  ELSE <<"Image ", CHOOSE d \in Digit : d = ToString(i), ":", " ">> \o images[i]
       \o (IF i < Len(images) /\ i < 2 THEN <<"\n">> ELSE <<>>)
       \o ImgLines(images, i + 1)

\* `Final summary\n\n${summary}${imgLines ? `\n\n${imgLines}` : ""}`
Finalized(d) ==
  FinalSummary(fmt(Or(Field(d, "summary"), d.text)))
    \o (IF ImgLines(d.images, 1) # <<>> THEN <<"\n\n">> \o ImgLines(d.images, 1) ELSE <<>>)

\* `- ${s.title || s.url || `Source ${i+1}`}${s.url ? `\n  ${s.url}` : ""}`
SourceLine(s, i) ==
  <<"-", " ">> \o Or(Or(s.title, s.url), <<"Source ", CHOOSE d \in Digit : d = ToString(i)>>)
     \o (IF s.url # <<>> THEN <<"\n", " ", " ">> \o s.url ELSE <<>>)

\* sources.slice(0, 3).map(...).join("\n")
RECURSIVE JoinLines(_, _)
JoinLines(sources, i) ==
  IF i > Len(sources) \/ i > 3 THEN <<>>
  ELSE SourceLine(sources[i], i)
       \o (IF i < Len(sources) /\ i < 3 THEN <<"\n">> ELSE <<>>)
       \o JoinLines(sources, i + 1)

WebResearch(sources) ==
  <<"Step: Web research", "\n\n", "Sources:", "\n">> \o Or(JoinLines(sources, 1), <<"(no sources)">>)

\* --------------------------------------------------------------- handlers
\* What the onEvent callback of a stream does with one frame: the updaters it
\* queues (in order), whether it assigns stepIdxRef.current = {} (before
\* queueing), and whether it starts a getHistory reload.  `ref` is the
\* registry as the handler reads it, outside any updater.

Does(ops, reset, reload) == [ops |-> ops, reset |-> reset, reload |-> reload]
Nothing == Does(<<>>, FALSE, FALSE)

\* let msg = generic; try { parsed = JSON.parse(data || "{}"); if (parsed?.detail) msg = ... } catch {}
ErrorMessage(d) == IF Field(d, "detail") # <<>> THEN WarningOf(Field(d, "detail")) ELSE Warning

\* streamChat handler (part_004:636-722)
ChatHandler(ev) ==
  CASE ev.type = "ready"    -> Nothing
    [] ev.type = "token"    -> Does(<<OpToken(ev.data.text)>>, FALSE, FALSE)
    [] ev.type = "error"    -> Does(<<OpError(ErrorMessage(ev.data))>>, FALSE, FALSE)
    [] ev.type = "thinking" ->
         Does(<<OpAnnotate(<<"\n\n", "[Thinking]", "\n">>
                \o Or(Or(Field(ev.data, "thoughts"), Field(ev.data, "thought")), ev.data.text))>>,
              FALSE, FALSE)
    [] ev.type \in {"debug", "debug_model_response"} ->
         Does(<<OpAnnotate(<<"\n\n", "[Model]", "\n">>
                \o Or(Or(Field(ev.data, "raw"), Field(ev.data, "detail")), ev.data.text))>>,
              FALSE, FALSE)
    [] ev.type = "done"     -> Does(<<>>, FALSE, TRUE)
    [] OTHER                -> Nothing

\* uploadChatFilesFoundry handler (part_004:227-271)
UploadHandler(ev) ==
  CASE ev.type = "ready"    -> Nothing
    [] ev.type = "token"    -> Does(<<OpToken(ev.data.text)>>, FALSE, FALSE)
    [] ev.type = "error"    ->
         IF ParseOrEmptyThrows(ev.data) THEN Nothing
         ELSE Does(<<OpError(WarningOf(Or(Field(ev.data, "detail"), StreamError)))>>, FALSE, FALSE)
    [] ev.type = "done"     -> Does(<<>>, FALSE, TRUE)
    [] OTHER                -> Nothing

\* streamResearch handler (part_004:317-439)
ResearchHandler(ev, ref) ==
  CASE ev.type = "ready" ->
         Does(<<OpReplaceOrPush(StartingResearch, TRUE, FALSE, "status")>>, TRUE, FALSE)
    [] ev.type = "token" -> Does(<<OpToken(ev.data.text)>>, FALSE, FALSE)
    [] ev.type = "thinking" ->
         Does(<<OpPush(ThinkingStep(fmt(Or(Or(Field(ev.data, "thoughts"), Field(ev.data, "thought")),
                                          ev.data.text))), FALSE, NoKey)>>, FALSE, FALSE)
    [] ev.type \in {"debug", "debug_model_response"} -> Nothing
    [] ev.type = "generate_query" ->
         Does(<<OpPush(InitialQuery(fmt(Field(ev.data, "query")), fmt(Field(ev.data, "rationale"))),
                       FALSE, NoKey),
                OpPush(SearchingWeb, TRUE, "web")>>, FALSE, FALSE)
    [] ev.type = "web_research" ->
         Does(<<IF Registered(ref, "web")
                THEN OpReplaceStep("web", WebResearch(ev.data.sources), FALSE, FALSE)
                ELSE OpPush(WebResearch(ev.data.sources), FALSE, NoKey),
                OpPush(Summarizing, TRUE, "sum")>>, FALSE, FALSE)
    [] ev.type = "summarize" ->
         Does(<<IF Registered(ref, "sum")
                THEN OpReplaceStep("sum", SummaryUpdate(fmt(Or(Field(ev.data, "summary"), ev.data.text))), FALSE, FALSE)
                ELSE OpPush(SummaryUpdate(fmt(Or(Field(ev.data, "summary"), ev.data.text))), FALSE, NoKey),
                OpPush(Reflecting, TRUE, "refl")>>, FALSE, FALSE)
    [] ev.type = "reflection" ->
         Does(<<IF Registered(ref, "refl")
                THEN OpReplaceStep("refl", ReflectionStep(fmt(Field(ev.data, "knowledge_gap")),
                                                          fmt(Field(ev.data, "query"))), FALSE, FALSE)
                ELSE OpPush(ReflectionStep(fmt(Field(ev.data, "knowledge_gap")),
                                           fmt(Field(ev.data, "query"))), FALSE, NoKey)>>, FALSE, FALSE)
    [] ev.type = "finalize" ->
         Does(<<IF Registered(ref, "finalize")
                THEN OpReplaceStep("finalize", Finalized(ev.data), FALSE, FALSE)
                ELSE OpPush(Finalized(ev.data), FALSE, NoKey)>>,
              FALSE, FALSE)
    [] ev.type = "error" -> Does(<<OpError(ErrorMessage(ev.data))>>, FALSE, FALSE)
    [] ev.type = "done" ->
         Does((IF Field(ev.data, "summary") # <<>>
               THEN <<OpFinal(FinalSummary(fmt(Field(ev.data, "summary"))))>> ELSE <<>>)
              \o (IF Registered(ref, "status")
                  THEN <<OpReplaceStep("status", ResearchComplete, FALSE, TRUE)>> ELSE <<>>),
              FALSE, FALSE)
    [] OTHER -> Nothing

\* streamReasoning handler (part_004:462-515)
ReasoningHandler(ev, ref) ==
  CASE ev.type = "ready" ->
         Does(<<OpReplaceOrPush(StartingReasoning, TRUE, FALSE, "r-status")>>, TRUE, FALSE)
    [] ev.type = "thinking" ->
         Does(<<OpReplaceOrPush(ThinkingStep(fmt(Or(Or(Field(ev.data, "message"), Field(ev.data, "detail")),
                                                   <<"Thinking...">>))), FALSE, FALSE, "r-thinking")>>,
              FALSE, FALSE)
    [] ev.type = "fallback" ->
         Does(<<OpPush(fmt(Or(Field(ev.data, "message"), <<"Using fallback.">>)), FALSE, NoKey)>>, FALSE, FALSE)
    [] ev.type = "finalize" ->
         Does(<<OpPush(fmt(Or(Field(ev.data, "message"), <<"Formatting reasoning output.">>)), FALSE, NoKey)>>,
              FALSE, FALSE)
    [] ev.type = "error" -> Does(<<OpError(ErrorMessage(ev.data))>>, FALSE, FALSE)
    [] ev.type = "done" ->
         Does((IF fmt(Field(ev.data, "markdown")) # <<>>
               THEN <<OpAppend(fmt(Field(ev.data, "markdown")))>> ELSE <<>>)
              \o (IF Registered(ref, "r-status")
                  THEN <<OpReplaceStep("r-status", ReasoningComplete, FALSE, TRUE)>> ELSE <<>>),
              FALSE, FALSE)
    [] OTHER -> Nothing

\* streamChat handler of pages/Chat.tsx (499-523), for the frames it shares
\* with the handler above: ready and token
PageChatHandler(ev) ==
  CASE ev.type = "ready" -> Nothing
    [] ev.type = "token" -> Does(<<OpTokenInline(ev.data.text)>>, FALSE, FALSE)

Handler(mode, ev, ref) ==
  CASE mode = "chat"          -> ChatHandler(ev)
    [] mode = "chat_page"     -> PageChatHandler(ev)
    [] mode = "upload"        -> UploadHandler(ev)
    [] mode = "deep_research" -> ResearchHandler(ev, ref)
    [] mode = "reasoning"     -> ReasoningHandler(ev, ref)

\* The onError callback of every stream (part_004:272-283, 440-451, 516-527, 723-734)
TransportErrorOps == <<OpError(Warning)>>

\* ----------------------------------------------------- the debug event log

\* The streams whose handlers push and replace step messages; they also log
\* their frames
StepModes == {"deep_research", "reasoning"}

\* .slice(0, 50)
LogCap == 50

\* try { payload: JSON.parse(String(ev.data || "")) } catch { payload: String(ev.data || "") }:
\* the parsed value, or the text itself when it is not JSON (the empty string included)
LogPayload(d) ==
  IF d.json = "invalid" THEN [kind |-> "text", text |-> d.text, f |-> d.f]
  ELSE [kind |-> d.json, text |-> <<>>, f |-> d.f]

\* { time: Date.now(), type: ev.type || "message", payload }; the time is left out
LogEntry(ev) == [type |-> ev.type, payload |-> LogPayload(ev.data)]

\* A faulty log updater, for comparison: it never drops an entry
logUpdate_Unbounded(prev, ev) == <<LogEntry(ev)>> \o prev

\* setDebugEvents((prev) => [entry, ...prev].slice(0, 50))
logUpdate(prev, ev) ==
  LET all == <<LogEntry(ev)>> \o prev
  IN  IF Len(all) <= LogCap THEN all ELSE SubSeq(all, 1, LogCap)

\* ------------------------------------------------------------------ bounds

MaxSends  == 1     \* send actions accepted (Spec)
MaxEvents == 3     \* frames delivered, all streams together (Spec)
MaxNav    == 1     \* thread switches
MaxBatch  == 2     \* callbacks that run between two renders
OverlapSends  == 2 \* send actions accepted (SpecOverlap)
OverlapEvents == 2 \* frames delivered (SpecOverlap)
MaxLen    == 2     \* units of an accumulated text and of a chunk (SpecJoin)
MaxMsgs   == 2     \* messages of the transcript a step frame finds (SpecSteps)
MaxCharts == 2     \* charts of an EDA response (SpecEda)
MaxRuns   == 2     \* runs of the Research view (SpecView)

\* ------------------------------------------------------------------ inputs

Threads == {1, 2}

\* sample texts
Partial == <<"p","a","r","t","i","a","l">>
Boom    == <<"b","o","o","m">>
Final1  == <<"f","i","n","a","l","1">>
Sum1    == <<"s","u","m","1">>
Q1      == <<"Q","1">>
Q2      == <<"Q","2">>
Gap1    == <<"g","a","p","1">>
S1      == [title |-> <<"S","1">>, url |-> <<"h","t","t","p",":","/","/","x">>]
Hello   == <<"h","i">>
Reply   == <<"o","k">>
Canon   == <<"d","o","n","e",".">>
UserText == <<"q">>

\* What the history collaborator holds for each thread before the session:
\* thread 1 holds one user message, thread 2 one exchange (and a message of
\* a role the page filters out).
InitialServer ==
  [t \in Threads |->
     IF t = 1 THEN << [role |-> "user", content |-> Hello, attachments |-> "files"] >>
     ELSE << [role |-> "system", content |-> <<"s","y","s">>, attachments |-> "absent"],
             [role |-> "user", content |-> Hello, attachments |-> "absent"],
             [role |-> "assistant", content |-> Reply, attachments |-> "absent"] >>]

\* The frames a stream of each mode may deliver
ChatEvents ==
  { Ev("ready", Raw(<<>>)), Ev("token", Raw(Partial)), Ev("thinking", Obj([thoughts |-> Sum1])),
    Ev("error", Obj([detail |-> Boom])), Ev("error", Raw(Boom)), Ev("done", Raw(<<>>)) }

UploadEvents ==
  { Ev("token", Raw(Partial)), Ev("error", Obj([detail |-> Boom])), Ev("error", Raw(Boom)),
    Ev("done", Raw(<<>>)) }

ResearchEvents ==
  { Ev("ready", Raw(<<>>)), Ev("token", Raw(Partial)),
    Ev("thinking", Obj([thoughts |-> Gap1])),
    Ev("generate_query", Obj([query |-> Q1])),
    Ev("web_research", ObjWith([k \in {} |-> <<>>], <<S1>>, <<>>)),
    Ev("finalize", Obj([summary |-> Final1])),
    Ev("error", Obj([detail |-> Boom])),
    Ev("done", Obj([summary |-> Final1])) }

ReasoningEvents ==
  { Ev("ready", Raw(<<>>)), Ev("thinking", Obj([message |-> Gap1])),
    Ev("error", Raw(<<>>)), Ev("done", Obj([markdown |-> Final1])) }

EventsOf(mode) ==
  CASE mode = "chat"          -> ChatEvents
    [] mode = "upload"        -> UploadEvents
    [] mode = "deep_research" -> ResearchEvents
    [] mode = "reasoning"     -> ReasoningEvents

Hel == <<"H","e","l">>
Lo  == <<"l","o">>

\* Scenario A of the chat pipeline
ScenarioA ==
  << Ev("ready", Raw(<<>>)), Ev("token", Raw(Hel)), Ev("token", Raw(Lo)), Ev("done", Raw(<<>>)) >>

\* Scenario C: an error in the middle of a chat stream
ScenarioC ==
  << Ev("ready", Raw(<<>>)), Ev("token", Raw(Partial)), Ev("error", Obj([detail |-> Boom])) >>

\* An acronym split across two chunks of a chat stream
ScenarioAcronym ==
  << Ev("ready", Raw(<<>>)), Ev("token", Raw(<<"B">>)), Ev("token", Raw(<<"S","P">>)),
     Ev("done", Raw(<<>>)) >>

ChatScripts == {ScenarioA, ScenarioC, ScenarioAcronym}

\* Scenario B of the deep-research pipeline: the frames of one full run
ScenarioB ==
  << Ev("ready", Raw(<<>>)),
     Ev("generate_query", Obj([query |-> Q1])),
     Ev("web_research", ObjWith([k \in {} |-> <<>>], <<S1>>, <<>>)),
     Ev("summarize", Obj([summary |-> Sum1])),
     Ev("reflection", Obj([knowledge_gap |-> Gap1, query |-> Q2])),
     Ev("finalize", Obj([summary |-> Final1])),
     Ev("done", Obj([summary |-> Final1])) >>

Modes == {"chat", "upload", "deep_research", "reasoning"}

\* ------------------------------------------------------------------- state

VARIABLES
  messages,     \* useState<Msg[]>: the transcript as last rendered
  stepIdxRef,   \* useRef: step key -> index
  queue,        \* updaters queued with setMessages and not yet applied
  flushing,     \* a render is applying the queue
  batch,        \* callbacks that have run since the queue was last empty
  threadId,     \* useState: the thread the page shows
  location,     \* thread_id of the URL
  sending,      \* useState: send() is running
  isStreaming,  \* useState
  streams,      \* the streams opened by send(), in order
  fetches,      \* getHistory calls in flight
  server,       \* what getHistory returns for each thread
  trace,        \* the frames delivered so far, with the stream of each (in eda
                \* mode: the sends and the outcomes of the backend call)
  lastRun,      \* the updater the last render step ran, and what it ran on
  navs,         \* thread switches so far
  script,       \* the frames the collaborator has yet to send, when it follows a script
  research,     \* the Research view (pages/Research.tsx): busy, its stream, events, summary
  debugEvents   \* useState: the debug event log, with its queued updaters applied

vars == <<messages, stepIdxRef, queue, flushing, batch, threadId, location, sending,
          isStreaming, streams, fetches, server, trace, lastRun, navs, script, research,
          debugEvents>>

\* useState of pages/Research.tsx (7-10) before the first run; `sse` is the
\* stream of the run ("none" before it), `runs` counts the runs
Idle == [busy |-> FALSE, sse |-> "none", events |-> <<>>, summary |-> <<>>, runs |-> 0]

\* ((hist.messages || []).filter(role is user or assistant).map(...))
\* The two load effects keep attachments (|| []); the reload after done drops them.
RECURSIVE HistoryView(_, _)
HistoryView(h, kind) ==
  IF h = <<>> THEN <<>>
  ELSE (IF Head(h).role \in {"user", "assistant"}
        THEN << Msg(Head(h).role, Head(h).content, FALSE, FALSE,
                    IF kind = "reload" THEN "absent"
                    ELSE IF Head(h).attachments = "absent" THEN "none"
                    ELSE Head(h).attachments) >>
        ELSE <<>>)
       \o HistoryView(Tail(h), kind)

\* The page is mounted on /chat?thread_id=1: the load effect has run up to
\* its await (part_004:135-153) and the page has rendered setThreadId(1).
\* (The thread-switch effect also runs on mount and issues the same request.)
Init ==
  /\ location = 1
  /\ threadId = 1
  /\ messages = <<>>
  /\ stepIdxRef = EmptyRef
  /\ queue = <<>>
  /\ flushing = FALSE
  /\ batch = 0
  /\ sending = FALSE
  /\ isStreaming = FALSE
  /\ streams = <<>>
  /\ fetches = {[tid |-> 1, kind |-> "init"]}
  /\ server = InitialServer
  /\ trace = <<>>
  /\ lastRun = [o |-> Op("none", <<>>, FALSE, FALSE, NoKey, <<>>), m |-> <<>>, r |-> EmptyRef]
  /\ navs = 0
  /\ script = <<>>
  /\ research = Idle
  /\ debugEvents = <<>>

\* A callback (stream frame, transport error, fetch completion) may run: no
\* render is in progress, and fewer than MaxBatch callbacks have run since
\* the last render.
CanRun == ~flushing /\ (queue = <<>> \/ batch < MaxBatch)
Ran == IF queue = <<>> THEN 1 ELSE batch + 1

\* The user clicks a thread in the sidebar (thread-switch effect, part_004:169-192)
Navigate(t) ==
  /\ ~flushing /\ queue = <<>>
  /\ navs < MaxNav
  /\ t # location
  /\ location' = t
  /\ navs' = navs + 1
  /\ IF t # threadId
     THEN /\ threadId' = t
          /\ fetches' = fetches \cup {[tid |-> t, kind |-> "switch"]}
     ELSE UNCHANGED <<threadId, fetches>>
  /\ UNCHANGED <<debugEvents, research, messages, stepIdxRef, queue, flushing, batch, sending, isStreaming,
                 streams, server, trace, lastRun, script>>

Stream(mode, tid) == [mode |-> mode, tid |-> tid, status |-> "open"]

\* send() (part_004:198-743) with a non-empty message, for the streaming
\* features; `n` bounds the sends.  With attachments the upload branch
\* returns before the optimistic append.  setSending(true) and
\* setSending(false) are queued in the same event, so no render shows
\* sending = true.
Send(mode, n) ==
  /\ ~flushing /\ queue = <<>>
  /\ threadId # 0 /\ ~sending
  /\ Len(streams) < n
  /\ streams' = Append(streams, Stream(mode, threadId))
  /\ IF mode = "upload"
     THEN UNCHANGED <<queue, flushing>>
     ELSE /\ queue' = <<OpOptimistic(UserText)>>
          /\ flushing' = TRUE
  /\ UNCHANGED <<debugEvents, research, messages, stepIdxRef, batch, threadId, location, sending, isStreaming,
                 fetches, server, trace, lastRun, navs, script>>

\* The stream client delivers frames while the connection is up; it does not
\* close itself on done and the page never calls close().
CanDeliver(s) == s.status \in {"open", "done"}

\* The collaborator has stored the exchange by the time it sends done
Persist(srv, s) ==
  IF s.mode \in {"chat", "upload"}
  THEN [srv EXCEPT ![s.tid] = @ \o
          << [role |-> "user", content |-> UserText,
              attachments |-> IF s.mode = "upload" THEN "files" ELSE "absent"],
             [role |-> "assistant", content |-> Canon, attachments |-> "absent"] >>]
  ELSE srv

\* onEvent of stream i runs on frame ev
Handle(i, ev) ==
  /\ CanRun
  /\ i \in 1..Len(streams)
  /\ CanDeliver(streams[i])
  /\ LET h == Handler(streams[i].mode, ev, stepIdxRef) IN
       /\ stepIdxRef' = IF h.reset THEN EmptyRef ELSE stepIdxRef
       /\ queue' = queue \o h.ops
       /\ fetches' = IF h.reload
                     THEN fetches \cup {[tid |-> streams[i].tid, kind |-> "reload"]}
                     ELSE fetches
  /\ batch' = Ran
  /\ isStreaming' = (IF ev.type = "ready" THEN TRUE
                     ELSE IF ev.type = "done" THEN FALSE ELSE isStreaming)
  /\ streams' = IF ev.type = "done" THEN [streams EXCEPT ![i].status = "done"] ELSE streams
  /\ server' = IF ev.type = "done" /\ streams[i].status = "open"
               THEN Persist(server, streams[i]) ELSE server
  /\ trace' = Append(trace, [i |-> i, ev |-> ev])
  /\ debugEvents' = IF streams[i].mode \in StepModes
                    THEN logUpdate(debugEvents, ev) ELSE debugEvents
  /\ UNCHANGED <<research, messages, flushing, threadId, location, sending, lastRun, navs>>

\* Stream i receives any frame of its mode; `n` bounds the frames
Deliver(i, ev, n) ==
  /\ Len(trace) < n
  /\ i \in 1..Len(streams)
  /\ ev \in EventsOf(streams[i].mode)
  /\ Handle(i, ev)
  /\ UNCHANGED script

\* The stream receives the next frame of the script
DeliverNext ==
  /\ script # <<>>
  /\ Handle(1, Head(script))
  /\ script' = Tail(script)

\* onError of stream i: the connection broke
TransportError(i) ==
  /\ CanRun
  /\ i \in 1..Len(streams)
  /\ streams[i].status = "open"
  /\ streams' = [streams EXCEPT ![i].status = "failed"]
  /\ isStreaming' = FALSE
  /\ queue' = queue \o TransportErrorOps
  /\ batch' = Ran
  /\ UNCHANGED <<debugEvents, research, messages, stepIdxRef, flushing, threadId, location, sending,
                 fetches, server, trace, lastRun, navs, script>>

\* A getHistory call resolves: setMessages(history)
FetchDone(f) ==
  /\ CanRun
  /\ f \in fetches
  /\ fetches' = fetches \ {f}
  /\ queue' = Append(queue, OpSet(HistoryView(server[f.tid], f.kind)))
  /\ batch' = Ran
  /\ UNCHANGED <<debugEvents, research, messages, stepIdxRef, flushing, threadId, location, sending,
                 isStreaming, streams, server, trace, lastRun, navs, script>>

\* A faulty failure path, for comparison: the failure is shown as a message
FetchFail_Surfaces(f) ==
  /\ ~flushing
  /\ f \in fetches
  /\ fetches' = fetches \ {f}
  /\ queue' = Append(queue, OpAppend(Warning))
  /\ UNCHANGED <<debugEvents, research, messages, stepIdxRef, flushing, batch, threadId, location, sending,
                 isStreaming, streams, server, trace, lastRun, navs, script>>

\* A getHistory call rejects: the catch blocks leave the transcript alone
FetchFail(f) ==
  /\ ~flushing
  /\ f \in fetches
  /\ fetches' = fetches \ {f}
  /\ UNCHANGED <<debugEvents, research, messages, stepIdxRef, queue, flushing, batch, threadId, location, sending,
                 isStreaming, streams, server, trace, lastRun, navs, script>>

\* React renders: the next queued updater runs on the transcript
Render ==
  /\ queue # <<>>
  /\ LET st == ApplyOp(messages, stepIdxRef, Head(queue)) IN
       /\ messages' = st.m
       /\ stepIdxRef' = st.r
  /\ queue' = Tail(queue)
  /\ lastRun' = [o |-> Head(queue), m |-> messages, r |-> stepIdxRef]
  /\ flushing' = (Len(queue) > 1)
  /\ UNCHANGED <<debugEvents, research, batch, threadId, location, sending, isStreaming, streams, fetches,
                 server, trace, navs, script>>

AllEvents == ChatEvents \cup UploadEvents \cup ResearchEvents \cup ReasoningEvents

\* One send at a time, up to MaxEvents frames
Next ==
  \/ \E t \in Threads : Navigate(t)
  \/ \E mode \in Modes : Send(mode, MaxSends)
  \/ \E ev \in AllEvents : Deliver(1, ev, MaxEvents)
  \/ TransportError(1)
  \/ \E f \in fetches : FetchDone(f)
  \/ \E f \in fetches : FetchFail(f)
  \/ Render

Spec == Init /\ [][Next]_vars

\* Up to OverlapSends sends on the thread of the page and up to
\* OverlapEvents frames; the user does not leave the thread
NextOverlap ==
  \/ \E mode \in Modes : Send(mode, OverlapSends)
  \/ \E i \in 1..OverlapSends, ev \in AllEvents : Deliver(i, ev, OverlapEvents)
  \/ \E i \in 1..OverlapSends : TransportError(i)
  \/ \E f \in fetches : FetchDone(f)
  \/ \E f \in fetches : FetchFail(f)
  \/ Render

SpecOverlap == Init /\ [][NextOverlap]_vars

\* The page shows a thread whose history has loaded; the user sends one
\* deep-research request and the stream delivers Scenario B
InitB ==
  /\ location \in Threads
  /\ threadId = location
  /\ messages = HistoryView(InitialServer[location], "init")
  /\ stepIdxRef = EmptyRef
  /\ queue = <<>>
  /\ flushing = FALSE
  /\ batch = 0
  /\ sending = FALSE
  /\ isStreaming = FALSE
  /\ streams = <<>>
  /\ fetches = {}
  /\ server = InitialServer
  /\ trace = <<>>
  /\ lastRun = [o |-> Op("none", <<>>, FALSE, FALSE, NoKey, <<>>), m |-> <<>>, r |-> EmptyRef]
  /\ navs = 0
  /\ script = ScenarioB
  /\ research = Idle
  /\ debugEvents = <<>>

NextB ==
  \/ Send("deep_research", MaxSends)
  \/ DeliverNext
  \/ Render

SpecB == InitB /\ [][NextB]_vars

\* The page shows a thread whose history has loaded; the user sends one chat
\* message and the stream delivers the frames of one of the chat scenarios
InitA ==
  /\ location \in Threads
  /\ threadId = location
  /\ messages = HistoryView(InitialServer[location], "init")
  /\ stepIdxRef = EmptyRef
  /\ queue = <<>>
  /\ flushing = FALSE
  /\ batch = 0
  /\ sending = FALSE
  /\ isStreaming = FALSE
  /\ streams = <<>>
  /\ fetches = {}
  /\ server = InitialServer
  /\ trace = <<>>
  /\ lastRun = [o |-> Op("none", <<>>, FALSE, FALSE, NoKey, <<>>), m |-> <<>>, r |-> EmptyRef]
  /\ navs = 0
  /\ script \in ChatScripts
  /\ research = Idle
  /\ debugEvents = <<>>

NextA ==
  \/ Send("chat", MaxSends)
  \/ DeliverNext
  \/ TransportError(1)
  \/ \E f \in fetches : FetchDone(f)
  \/ \E f \in fetches : FetchFail(f)
  \/ Render

SpecA == InitA /\ [][NextA]_vars

\* The page shows a thread whose history has loaded and the user sends one
\* message with any of the streaming features; the user stays on the thread
InitLoaded ==
  /\ location \in Threads
  /\ threadId = location
  /\ messages = HistoryView(InitialServer[location], "init")
  /\ stepIdxRef = EmptyRef
  /\ queue = <<>>
  /\ flushing = FALSE
  /\ batch = 0
  /\ sending = FALSE
  /\ isStreaming = FALSE
  /\ streams = <<>>
  /\ fetches = {}
  /\ server = InitialServer
  /\ trace = <<>>
  /\ lastRun = [o |-> Op("none", <<>>, FALSE, FALSE, NoKey, <<>>), m |-> <<>>, r |-> EmptyRef]
  /\ navs = 0
  /\ script = <<>>
  /\ research = Idle
  /\ debugEvents = <<>>

NextLoaded ==
  \/ \E mode \in Modes : Send(mode, MaxSends)
  \/ \E ev \in AllEvents : Deliver(1, ev, MaxEvents)
  \/ TransportError(1)
  \/ \E f \in fetches : FetchDone(f)
  \/ \E f \in fetches : FetchFail(f)
  \/ Render

SpecLoaded == InitLoaded /\ [][NextLoaded]_vars

\* Long runs, for the debug event log: the rounds of a deep-research run and
\* the clicks on Clear
DebugRounds == 13
MaxClears == 1

\* One round of the deep-research pipeline
Round == SubSeq(ScenarioB, 2, 5)

RECURSIVE Rounds(_)
Rounds(n) == IF n = 0 THEN <<>> ELSE Round \o Rounds(n - 1)

RECURSIVE Thinkings(_)
Thinkings(n) ==
  IF n = 0 THEN <<>> ELSE <<Ev("thinking", Obj([message |-> Gap1]))>> \o Thinkings(n - 1)

\* What the collaborator sends in a long run of each feature
DebugScript(mode) ==
  CASE mode = "deep_research" ->
         <<Ev("ready", Raw(<<>>))>> \o Rounds(DebugRounds)
            \o <<Ev("finalize", Obj([summary |-> Final1])), Ev("done", Obj([summary |-> Final1]))>>
    [] mode = "reasoning" ->
         <<Ev("ready", Raw(<<>>))>> \o Thinkings(4 * DebugRounds)
            \o <<Ev("fallback", Raw(Boom)), Ev("done", Obj([markdown |-> Final1]))>>
    [] mode = "chat" -> ScenarioA

DebugModes == {"chat"} \cup StepModes

InitDebug ==
  /\ location \in Threads
  /\ threadId = location
  /\ messages = HistoryView(InitialServer[location], "init")
  /\ stepIdxRef = EmptyRef
  /\ queue = <<>>
  /\ flushing = FALSE
  /\ batch = 0
  /\ sending = FALSE
  /\ isStreaming = FALSE
  /\ streams = <<>>
  /\ fetches = {}
  /\ server = InitialServer
  /\ trace = <<>>
  /\ lastRun = [o |-> Op("none", <<>>, FALSE, FALSE, NoKey, <<>>), m |-> <<>>, r |-> EmptyRef]
  /\ navs = 0
  /\ script \in {DebugScript(mode) : mode \in DebugModes}
  /\ research = Idle
  /\ debugEvents = <<>>

Clears == Cardinality({a \in 1..Len(trace) : trace[a].ev.type = "clear"})

\* The Clear button of the debug panel (part_004:868-874), shown while the
\* log is not empty: setDebugEvents([]); `n` bounds the clicks
ClearLog(n) ==
  /\ ~flushing
  /\ debugEvents # <<>>
  /\ Clears < n
  /\ debugEvents' = <<>>
  /\ trace' = Append(trace, [i |-> 0, ev |-> Ev("clear", Raw(<<>>))])
  /\ UNCHANGED <<research, messages, stepIdxRef, queue, flushing, batch, threadId, location,
                 sending, isStreaming, streams, fetches, server, lastRun, navs, script>>

NextDebug ==
  \/ \E mode \in DebugModes : script = DebugScript(mode) /\ Send(mode, MaxSends)
  \/ DeliverNext
  \/ ClearLog(MaxClears)
  \/ \E f \in fetches : FetchDone(f)
  \/ \E f \in fetches : FetchFail(f)
  \/ Render

SpecDebug == InitDebug /\ [][NextDebug]_vars

\* The characters the joined texts are made of: uppercase, lowercase, digit,
\* whitespace, punctuation
Alphabet == {"B", "S", "P", "e", "1", " ", "."}
Texts == UNION {[1..n -> Alphabet] : n \in 0..MaxLen}

\* The streaming paths that handle token frames: chat, file upload and
\* deep research of part_004, and chat of pages/Chat.tsx
JoinModes == {"chat", "upload", "deep_research", "chat_page"}

\* A stream is open and its assistant message holds some text already
InitJoin ==
  /\ location = 1
  /\ threadId = 1
  /\ \E acc \in Texts : messages = <<UserMsg(UserText), AssistantMsg(acc, FALSE, FALSE)>>
  /\ stepIdxRef = EmptyRef
  /\ queue = <<>>
  /\ flushing = FALSE
  /\ batch = 0
  /\ sending = FALSE
  /\ isStreaming = TRUE
  /\ \E mode \in JoinModes : streams = <<Stream(mode, 1)>>
  /\ fetches = {}
  /\ server = InitialServer
  /\ trace = <<>>
  /\ lastRun = [o |-> Op("none", <<>>, FALSE, FALSE, NoKey, <<>>), m |-> <<>>, r |-> EmptyRef]
  /\ navs = 0
  /\ script = <<>>
  /\ research = Idle
  /\ debugEvents = <<>>

\* The stream delivers one token frame
DeliverToken(chunk) ==
  /\ trace = <<>>
  /\ Handle(1, Ev("token", Raw(chunk)))
  /\ UNCHANGED script

NextJoin ==
  \/ \E chunk \in Texts : DeliverToken(chunk)
  \/ Render

SpecJoin == InitJoin /\ [][NextJoin]_vars

\* The messages a step frame may find in the transcript: a user message, the
\* empty placeholder, an assistant message that holds whitespace only, one
\* that holds text
SomeMessages ==
  { UserMsg(UserText), AssistantMsg(<<>>, FALSE, FALSE),
    AssistantMsg(<<" ">>, FALSE, FALSE), AssistantMsg(Reply, FALSE, FALSE) }
Transcripts == UNION {[1..n -> SomeMessages] : n \in 0..MaxMsgs}

\* A deep-research or reasoning stream is open on some transcript
InitSteps ==
  /\ location = 1
  /\ threadId = 1
  /\ messages \in Transcripts
  /\ stepIdxRef = EmptyRef
  /\ queue = <<>>
  /\ flushing = FALSE
  /\ batch = 0
  /\ sending = FALSE
  /\ isStreaming = TRUE
  /\ \E mode \in StepModes : streams = <<Stream(mode, 1)>>
  /\ fetches = {}
  /\ server = InitialServer
  /\ trace = <<>>
  /\ lastRun = [o |-> Op("none", <<>>, FALSE, FALSE, NoKey, <<>>), m |-> <<>>, r |-> EmptyRef]
  /\ navs = 0
  /\ script = <<>>
  /\ research = Idle
  /\ debugEvents = <<>>

\* The stream delivers one frame of its mode
DeliverOne(ev) ==
  /\ trace = <<>>
  /\ streams # <<>> /\ ev \in EventsOf(streams[1].mode)
  /\ Handle(1, ev)
  /\ UNCHANGED script

NextSteps ==
  \/ \E ev \in AllEvents : DeliverOne(ev)
  \/ Render

SpecSteps == InitSteps /\ [][NextSteps]_vars

\* ---------------------------------------------------------------------- eda
\* (the folder sign of the source is written (file), its multiplication sign x)

StartingEda == <<"Starting EDA...">>
EdaComplete == <<"EDA Complete">>
EdaHint     == <<"(file) For EDA, attach a CSV/XLSX file or paste JSON data in the message.">>
EdaError    == <<"(!) EDA error: ", "f", "a", "i", "l", "e", "d">>
TopNTable   == <<"Top-N table">>
Statistics  == <<"Descriptive statistics">>
SqlMd       == <<"## Data Transformation Applied", "\n\n", "**SQL Query:**">>
KeyFindings == <<"## Key findings", "\n", "k">>
Ordinal     == <<"1", "2", "3">>

\* One entry of res.charts.charts: title and reason are optional
Chart(title, reason) == [title |-> title, reason |-> reason]
\* `Chart ${i + 1}${c.title ? `: ${c.title}` : ""}${c.reason ? `\n\n_${c.reason}_` : ""}`
ChartText(i, c) ==
  <<"Chart ", Ordinal[i]>>
    \o (IF c.title # <<>> THEN <<": ">> \o c.title ELSE <<>>)
    \o (IF c.reason # <<>> THEN <<"\n\n", "_">> \o c.reason \o <<"_">> ELSE <<>>)

ChartA == Chart(<<"a">>, <<>>)
ChartB == Chart(<<>>, <<"b">>)
ChartLists == UNION {[1..n -> {ChartA, ChartB}] : n \in 0..MaxCharts}

\* What edaProcess resolves to.  top_n: absent, a table with or without a
\* title, or an object whose rows are not an array; insights: absent, an
\* object with key_findings, or an object with none of the three parts.
Responses ==
  [charts : ChartLists, top_n : {"absent", "titled", "untitled", "malformed"},
   stats : BOOLEAN, sql : BOOLEAN, insights : {"absent", "findings", "empty"}]

\* What the user typed: text that is not JSON, a JSON object, JSON null
EdaPrompts == {Raw(UserText), Obj([k \in {} |-> <<>>]), Null}

\* A faulty test of the prompt, for comparison: every prompt passes as data
NoData_Never(prompt) == FALSE

\* try { data = JSON.parse(finalUserText) } catch {} ; if (!data) ...
NoData(prompt) == prompt.json # "object"

IsSend(e) == e.ev.type = "send"
Sends == Len(SelectSeq(trace, IsSend))

\* send() with feature eda (part_004:198-210, 310, 529-561): the optimistic
\* append, then the hint and return, or the status row and the backend call
SendEda(file, prompt, n) ==
  /\ ~flushing /\ queue = <<>>
  /\ threadId # 0 /\ ~sending
  /\ Sends < n
  /\ file \/ prompt.text # <<>>
  /\ LET short == ~file /\ NoData(prompt) IN
       /\ queue' = <<OpOptimistic(prompt.text),
                     IF short THEN OpAppend(EdaHint)
                     ELSE OpReplaceOrPush(StartingEda, TRUE, FALSE, "eda-status")>>
       /\ streams' = IF short THEN streams ELSE Append(streams, Stream("eda", threadId))
       /\ sending' = ~short
  /\ flushing' = TRUE
  /\ trace' = Append(trace, [i |-> 0, ev |-> Ev("send", [file |-> file, prompt |-> prompt])])
  /\ UNCHANGED <<debugEvents, research, messages, stepIdxRef, batch, threadId, location, isStreaming,
                 fetches, server, lastRun, navs, script>>

\* The updaters queued after `await edaProcess(payload)` (part_004:562-620)
EdaOps(res) ==
  <<OpReplaceStep("eda-status", EdaComplete, FALSE, TRUE)>>
    \o [i \in 1..Len(res.charts) |-> OpAppendPart(ChartText(i, res.charts[i]), "figure")]
    \o (IF res.top_n = "titled" THEN <<OpAppendPart(<<"t">>, "dataTable")>>
        ELSE IF res.top_n = "untitled" THEN <<OpAppendPart(TopNTable, "dataTable")>>
        ELSE <<>>)
    \o (IF res.stats THEN <<OpAppendPart(Statistics, "stats")>> ELSE <<>>)
    \o (IF res.sql THEN <<OpAppend(SqlMd)>> ELSE <<>>)
    \o (IF res.insights = "findings" THEN <<OpAppend(KeyFindings)>>
        ELSE IF res.insights = "empty" THEN <<OpAppend(<<>>)>>
        ELSE <<>>)

\* edaProcess resolves; finally: setSending(false)
EdaDone(i, res) ==
  /\ CanRun
  /\ i \in 1..Len(streams)
  /\ streams[i].mode = "eda" /\ streams[i].status = "open"
  /\ streams' = [streams EXCEPT ![i].status = "done"]
  /\ queue' = queue \o EdaOps(res)
  /\ batch' = Ran
  /\ sending' = FALSE
  /\ trace' = Append(trace, [i |-> i, ev |-> Ev("response", res)])
  /\ UNCHANGED <<debugEvents, research, messages, stepIdxRef, flushing, threadId, location, isStreaming,
                 fetches, server, lastRun, navs, script>>

\* A faulty failure path, for comparison: the send control stays disabled
EdaFail_KeepsSending(i) ==
  /\ CanRun
  /\ i \in 1..Len(streams)
  /\ streams[i].mode = "eda" /\ streams[i].status = "open"
  /\ streams' = [streams EXCEPT ![i].status = "failed"]
  /\ queue' = Append(queue, OpAppend(EdaError))
  /\ batch' = Ran
  /\ trace' = Append(trace, [i |-> i, ev |-> Ev("rejected", <<>>)])
  /\ UNCHANGED <<debugEvents, research, messages, stepIdxRef, flushing, threadId, location, isStreaming,
                 fetches, server, lastRun, navs, script, sending>>

\* edaProcess rejects: catch (err) appends the error message; finally: setSending(false)
EdaFail(i) ==
  /\ CanRun
  /\ i \in 1..Len(streams)
  /\ streams[i].mode = "eda" /\ streams[i].status = "open"
  /\ streams' = [streams EXCEPT ![i].status = "failed"]
  /\ queue' = Append(queue, OpAppend(EdaError))
  /\ batch' = Ran
  /\ sending' = FALSE
  /\ trace' = Append(trace, [i |-> i, ev |-> Ev("rejected", <<>>)])
  /\ UNCHANGED <<debugEvents, research, messages, stepIdxRef, flushing, threadId, location, isStreaming,
                 fetches, server, lastRun, navs, script>>

NextEda ==
  \/ \E file \in BOOLEAN, prompt \in EdaPrompts : SendEda(file, prompt, MaxSends)
  \/ \E i \in 1..MaxSends, res \in Responses : EdaDone(i, res)
  \/ \E i \in 1..MaxSends : EdaFail(i)
  \/ \E t \in Threads : Navigate(t)
  \/ \E f \in fetches : FetchDone(f)
  \/ \E f \in fetches : FetchFail(f)
  \/ Render

SpecEda == Init /\ [][NextEda]_vars

\* ------------------------------------------------------ the send control

\* What uploadChatFiles extracted from the attached files
Extracted == <<"x">>

\* The features a send with attachments continues with once the text of the
\* files has been extracted
StreamFeatures == {"chat", "deep_research", "reasoning"}

\* send() with attachments on a deployment that is not Foundry
\* (part_004:198-215, 292-295): setSending(true), then await uploadChatFiles
SendExtract(n) ==
  /\ ~flushing /\ queue = <<>>
  /\ threadId # 0 /\ ~sending
  /\ Sends < n
  /\ sending' = TRUE
  /\ streams' = Append(streams, Stream("extract", threadId))
  /\ trace' = Append(trace, [i |-> 0, ev |-> Ev("send", [file |-> TRUE, prompt |-> Raw(UserText)])])
  /\ UNCHANGED <<debugEvents, research, messages, stepIdxRef, queue, flushing, batch, threadId, location,
                 isStreaming, fetches, server, lastRun, navs, script>>

\* uploadChatFiles settles (part_004:295-312, 625-742): with the extracted
\* text appended, or with the text as typed when the call rejected, send()
\* goes on to the optimistic append and opens the stream of the feature;
\* finally: setSending(false)
ExtractSettles(i, ok, mode) ==
  /\ CanRun /\ queue = <<>>
  /\ i \in 1..Len(streams)
  /\ streams[i].mode = "extract" /\ streams[i].status = "open"
  /\ streams' = Append([streams EXCEPT ![i].status = IF ok THEN "done" ELSE "failed"],
                       Stream(mode, streams[i].tid))
  /\ queue' = <<OpOptimistic(IF ok THEN UserText \o <<"\n\n">> \o Extracted ELSE UserText)>>
  /\ flushing' = TRUE
  /\ sending' = FALSE
  /\ UNCHANGED <<debugEvents, research, messages, stepIdxRef, batch, threadId, location, isStreaming,
                 fetches, server, trace, lastRun, navs, script>>

\* The responses that carry one part at most
PlainResponses ==
  {r \in Responses : Len(r.charts) <= 1 /\ r.top_n \in {"absent", "untitled"}
                       /\ ~r.stats /\ ~r.sql /\ r.insights = "absent"}

Settles ==
  \/ \E i \in DOMAIN streams, res \in PlainResponses : EdaDone(i, res)
  \/ \E i \in DOMAIN streams : EdaFail(i)
  \/ \E i \in DOMAIN streams, ok \in BOOLEAN, mode \in StreamFeatures : ExtractSettles(i, ok, mode)

NextSend ==
  \/ \E mode \in Modes : Send(mode, MaxSends)
  \/ \E file \in BOOLEAN, prompt \in EdaPrompts : SendEda(file, prompt, MaxSends)
  \/ SendExtract(MaxSends)
  \/ Settles
  \/ \E i \in DOMAIN streams : streams[i].mode \in Modes /\ TransportError(i)
  \/ \E f \in fetches : FetchDone(f)
  \/ \E f \in fetches : FetchFail(f)
  \/ Render

\* A render always follows a state update, and a request to the backend
\* settles: it resolves or it rejects
SpecSend ==
  Init /\ [][NextSend]_vars /\ WF_vars(Render) /\ WF_vars(Settles)

\* ------------------------------------------------------- the Research view

\* What the stream client does with an exception thrown by the onEvent
\* callback: it lets it go (nothing else runs), or it reports a failure
\* through the error callback
ThrowOutcomes == {"unhandled", "onError"}

\* The frames a research stream may deliver to the view
ViewEvents ==
  { Ev("ready", Raw(<<>>)), Ev("keepalive", Raw(<<>>)),
    Ev("generate_query", Obj([query |-> Q1])), Ev("finalize", Raw(Boom)),
    Ev("done", Obj([summary |-> Final1])), Ev("done", Raw(<<>>)),
    Ev("done", Raw(Boom)), Ev("done", Null) }

\* safeJSON of Research.tsx: JSON.parse(s || "{}"), s itself when that throws
ViewPayload(d) ==
  IF ParseOrEmptyThrows(d) THEN [kind |-> "text", text |-> d.text, f |-> d.f]
  ELSE [kind |-> d.json, text |-> <<>>, f |-> d.f]

\* const data = JSON.parse(ev.data || "{}"); data.summary : throws a
\* SyntaxError on text that is not JSON and a TypeError on null
DoneThrows(d) == ParseOrEmptyThrows(d) \/ d.json = "null"

\* The page reaching the view: nothing of the Chat page changes
chat == <<messages, stepIdxRef, queue, flushing, batch, threadId, location, sending,
          isStreaming, streams, fetches, server, lastRun, navs, script, debugEvents>>

\* run (Research.tsx:12-16) with a non-blank topic
Run(n) ==
  /\ ~research.busy
  /\ research.runs < n
  /\ research' = [busy |-> TRUE, sse |-> "open", events |-> <<>>, summary |-> <<>>,
                  runs |-> research.runs + 1]
  /\ UNCHANGED <<chat, trace>>

\* The onEvent callback of run (Research.tsx:18-28)
ViewDeliver(ev, outcome, n) ==
  /\ research.sse = "open"
  /\ Len(trace) < n
  /\ research' =
       IF ev.type = "done"
       THEN IF DoneThrows(ev.data)
            THEN (IF outcome = "onError" THEN [research EXCEPT !.busy = FALSE] ELSE research)
            ELSE [research EXCEPT !.summary = Field(ev.data, "summary"),
                                  !.busy = FALSE, !.sse = "closed"]
       ELSE IF ev.type \in {"keepalive", "ready"} THEN research
       ELSE [research EXCEPT !.events = Append(@, [type |-> ev.type,
                                                   payload |-> ViewPayload(ev.data)])]
  /\ trace' = Append(trace, [i |-> research.runs, ev |-> ev])
  /\ UNCHANGED chat

\* The error callback of run (Research.tsx:30): the connection broke
ViewError ==
  /\ research.sse = "open"
  /\ research' = [research EXCEPT !.busy = FALSE, !.sse = "failed"]
  /\ UNCHANGED <<chat, trace>>

NextView ==
  \/ Run(MaxRuns)
  \/ \E ev \in ViewEvents, outcome \in ThrowOutcomes : ViewDeliver(ev, outcome, MaxEvents)
  \/ ViewError

SpecView == Init /\ [][NextView]_vars

\* ------------------------------------------------------------------ claims

\* The transcript and registry once every queued updater has run
RECURSIVE Flush(_, _, _)
Flush(m, ref, q) ==
  IF q = <<>> THEN [m |-> m, r |-> ref]
  ELSE LET st == ApplyOp(m, ref, Head(q)) IN Flush(st.m, st.r, Tail(q))

Effective == Flush(messages, stepIdxRef, queue)

\* Stream i has been opened and has delivered neither done nor a transport error
Active(i) == i \in 1..Len(streams) /\ streams[i].status = "open"
SomeActive == \E i \in 1..Len(streams) : Active(i)

\* C1: at most one stream is open per thread at any time: a send invoked
\* while an earlier stream of the thread has not delivered done or a
\* transport error opens no stream.
C1_AtMostOneOpenStream ==
  \A i, j \in 1..Len(streams) :
    (Active(i) /\ Active(j) /\ streams[i].tid = streams[j].tid) => i = j

\* C2: while a stream is active the transcript never shrinks and no message
\* changes position or role: each step appends at the end or edits the
\* content/pending/completed of one existing message in place.
AppendOrEditInPlace(m, n) ==
  /\ Len(n) >= Len(m)
  /\ \A k \in 1..Len(m) : n[k].role = m[k].role /\ n[k].attachments = m[k].attachments
  /\ Cardinality({k \in 1..Len(m) : n[k] # m[k]}) <= 1
C2_AppendOnlyWhileStreaming ==
  [][SomeActive => AppendOrEditInPlace(messages, messages')]_vars

\* C3: an error frame and a transport error change the transcript only if
\* the last message is an assistant message with empty content; otherwise
\* the transcript is left as it was.
\* The render step that runs the queued updater of the given kind
Runs(kind) == queue # <<>> /\ Head(queue).op = kind /\ queue' = Tail(queue)
ErrorRuns == Runs("error")
C3_ErrorOnlyFillsEmptyPlaceholder ==
  [][(ErrorRuns /\ ~LastIsEmptyAssistant(messages)) => messages' = messages]_vars

\* ready, token("partial"), error({detail:"boom"}) on a chat stream: the
\* error updater has run and the content is still "partial"
C3_Witness ==
  /\ Len(streams) = 1 /\ streams[1].mode = "chat"
  /\ Len(trace) = 3
  /\ trace[1].ev.type = "ready" /\ trace[2].ev.type = "token"
  /\ trace[3].ev = Ev("error", Obj([detail |-> Boom]))
  /\ queue = <<>> /\ lastRun.o.op = "error" /\ messages = lastRun.m
  /\ messages # <<>> /\ messages[Len(messages)].content = Partial

\* C4: the StepTracker is cleared at the start of every send, in every
\* mode, before any frame of the new stream is handled: once a send is
\* accepted no key registered during an earlier send resolves to an index.
SendAccepted == Len(streams') = Len(streams) + 1
C4_SendClearsStepTracker ==
  [][SendAccepted => stepIdxRef' = EmptyRef]_vars

\* C5: whenever the transcript is replaced wholesale (history load on a
\* thread switch, reload after chat done) every StepTracker key is
\* invalidated, so no later replaceStep edits the replacement transcript
\* through an index recorded for the old one.
C5_ReplacementInvalidatesKeys ==
  lastRun.o.op = "set" => stepIdxRef = EmptyRef

\* C6: a history fetch that completes after the user has switched to
\* another thread does not modify the transcript.
Completes(f) == f \in fetches /\ f \notin fetches'
C6_StaleFetchIgnored ==
  [][\A f \in fetches :
       (Completes(f) /\ f.tid # threadId)
         => Flush(messages', stepIdxRef', queue').m = Effective.m]_vars

\* C7: replaceStep with a key that is not registered, or whose recorded
\* index is past the end of the transcript, leaves the transcript and the
\* StepTracker unchanged and never appends a message.
Dangling(ref, key, m) == ~Registered(ref, key) \/ ref[key] >= Len(m)
ReplaceStepRuns == Runs("replaceStep")
C7_ReplaceStepNoOp ==
  [][(ReplaceStepRuns /\ Dangling(stepIdxRef, Head(queue).key, messages))
       => (messages' = messages /\ stepIdxRef' = stepIdxRef)]_vars

\* replaceStep has just run with a key that a later ready had already cleared
C7_Witness ==
  /\ lastRun.o.op = "replaceStep"
  /\ ~Registered(lastRun.r, lastRun.o.key)
  /\ messages = lastRun.m /\ messages # <<>>

\* replaceStep has just run with an index past the end of the transcript
C7_WitnessPastEnd ==
  /\ lastRun.o.op = "replaceStep"
  /\ Registered(lastRun.r, lastRun.o.key)
  /\ lastRun.r[lastRun.o.key] >= Len(lastRun.m)
  /\ messages = lastRun.m

\* C8: in deep_research mode, handling done twice with the same final
\* summary leaves one appended 'Final summary' message: the second done
\* does not change the number of messages.
DoneFrame == Ev("done", Obj([summary |-> Final1]))
DoneOps == {"final", "replaceStep"}
\* The last thing that happened to the transcript is the handling of a first
\* done frame of deep_research stream i
JustHandledDone(i) ==
  /\ Len(trace) >= 1 /\ trace[Len(trace)] = [i |-> i, ev |-> DoneFrame]
  /\ i \in 1..Len(streams) /\ streams[i].mode = "deep_research"
  /\ IF queue = <<>> THEN lastRun.o.op \in DoneOps ELSE queue[Len(queue)].op \in DoneOps
HandlesDoneAgain(i) ==
  JustHandledDone(i) /\ trace' = Append(trace, [i |-> i, ev |-> DoneFrame])
C8_SecondDoneKeepsLength ==
  [][\A i \in 1..Len(streams) :
       HandlesDoneAgain(i)
         => Len(Flush(messages', stepIdxRef', queue').m) = Len(Effective.m)]_vars

\* C9: in deep_research mode, after finalize({summary: s}) followed, possibly
\* after other frames such as thinking, by done({summary: s}), the summary is
\* rendered once: the transcript never holds two 'Final summary' messages.
FinalSummaries(m) ==
  {k \in 1..Len(m) : m[k].role = "assistant" /\ StartsWithFinalSummary(m[k].content)}
FinalizeThenDone ==
  \E a, b \in 1..Len(trace) :
    /\ a < b /\ trace[a].i = trace[b].i
    /\ streams[trace[a].i].mode = "deep_research"
    /\ trace[a].ev = Ev("finalize", Obj([summary |-> Final1]))
    /\ trace[b].ev = DoneFrame
    /\ \A c \in 1..(b - 1) : trace[c].ev.type # "done"
C9_OneFinalSummary ==
  FinalizeThenDone => Cardinality(FinalSummaries(Effective.m)) <= 1

\* C10: in deep_research mode the frames ready, generate_query,
\* web_research, summarize, reflection, finalize({summary:"final1"}),
\* done({summary:"final1"}) after a send yield, after the user message,
\* exactly: the status step marked completed, the initial-query step, the
\* web-research step listing the source, the summary step, the reflection
\* step and one 'Final summary' step with content "final1".
ScenarioBSteps ==
  << AssistantMsg(ResearchComplete, FALSE, TRUE),
     AssistantMsg(InitialQuery(Q1, <<>>), FALSE, FALSE),
     AssistantMsg(WebResearch(<<S1>>), FALSE, FALSE),
     AssistantMsg(SummaryUpdate(Sum1), FALSE, FALSE),
     AssistantMsg(ReflectionStep(Gap1, Q2), FALSE, FALSE),
     AssistantMsg(FinalSummary(Final1), FALSE, FALSE) >>
ScenarioBHandled == streams # <<>> /\ script = <<>> /\ queue = <<>>
C10_ScenarioBTranscript ==
  ScenarioBHandled =>
    messages = HistoryView(InitialServer[threadId], "init")
                 \o <<UserMsg(UserText)>> \o ScenarioBSteps

\* C11: in reasoning mode any number of thinking frames of one stream
\* update a single thinking bubble: after k >= 1 thinking frames the
\* transcript holds one 'Step: Thinking' message, never two.
ThinkingBubbles(m) ==
  {k \in 1..Len(m) : m[k].role = "assistant" /\ m[k].content # <<>>
                     /\ m[k].content[1] = "Step: Thinking"}
ReasoningThinkings ==
  {a \in 1..Len(trace) : streams[trace[a].i].mode = "reasoning" /\ trace[a].ev.type = "thinking"}
C11_OneThinkingBubble ==
  ReasoningThinkings # {} => Cardinality(ThinkingBubbles(Effective.m)) <= 1

\* C12: in deep_research mode every web_research, summarize, reflection and
\* finalize frame, the first and every later one, edits in place the message
\* registered for its step and appends no further message for that step
\* (the placeholder of the step that follows is all it may append).
StepHeading(type) ==
  CASE type = "web_research" -> "Step: Web research"
    [] type = "summarize"    -> "Step: Summary update"
    [] type = "reflection"   -> "Step: Reflection"
    [] type = "finalize"     -> "Final summary"
    [] OTHER                 -> "none"
StepKey(type) ==
  CASE type = "web_research" -> "web"
    [] type = "summarize"    -> "sum"
    [] type = "reflection"   -> "refl"
    [] type = "finalize"     -> "finalize"
    [] OTHER                 -> NoKey
FrameHandled == Len(trace') = Len(trace) + 1
\* Stream i has a message for the step of frame type `type`: its placeholder
\* is registered, or a frame of that type has been handled before
HasStepMessage(i, type) ==
  \/ Registered(stepIdxRef, StepKey(type))
  \/ \E a \in 1..Len(trace) : trace[a].i = i /\ trace[a].ev.type = type
Appended(before, after) == {k \in (Len(before) + 1)..Len(after) : after[k].content # <<>>}
C12_StepEditsInPlace ==
  [][(/\ FrameHandled
      /\ streams[trace'[Len(trace')].i].mode = "deep_research"
      /\ StepHeading(trace'[Len(trace')].ev.type) # "none"
      /\ HasStepMessage(trace'[Len(trace')].i, trace'[Len(trace')].ev.type))
       => LET after == Flush(messages', stepIdxRef', queue').m IN
            \A k \in Appended(Effective.m, after) :
               after[k].content[1] # StepHeading(trace'[Len(trace')].ev.type)]_vars

\* A token updater has just run: the text it found, the chunk, the text it left
JoinRan == lastRun.o.op \in {"token", "tokenInline"} /\ LastIsAssistant(lastRun.m)
Acc == lastRun.m[Len(lastRun.m)].content
Chunk == lastRun.o.content
Joined == messages[Len(messages)].content
\* part_004's token updaters, which call concatChunk
JoinerRan == JoinRan /\ lastRun.o.op = "token"
AllCapsOrDigits(s) == s # <<>> /\ \A k \in 1..Len(s) : s[k] \in Upper \cup Digit
EndsAlnum(s) == s # <<>> /\ IsAlnum(s[Len(s)])
StartsAlnum(s) == s # <<>> /\ IsAlnum(s[1])
EndsSpace(s) == s # <<>> /\ IsSpace(s[Len(s)])
StartsSpace(s) == s # <<>> /\ IsSpace(s[1])

\* C13: TokenJoiner acronym property: when the trailing alphanumeric run of
\* the accumulated text and the leading alphanumeric run of the chunk are
\* both all uppercase letters and digits (in particular when both strings
\* are), the two are concatenated with no inserted space.
C13_AcronymJoin ==
  (JoinerRan /\ AllCapsOrDigits(LastToken(Acc)) /\ AllCapsOrDigits(FirstToken(Chunk)))
    => Joined = Acc \o Chunk

\* "B" joined with "SP" by a token updater of part_004
C13_Witness ==
  JoinerRan /\ Acc = <<"B">> /\ Chunk = <<"S", "P">> /\ Joined = <<"B", "S", "P">>

\* C14: TokenJoiner whitespace rule: when the accumulated text ends in
\* whitespace, or the chunk begins with whitespace, the result is the plain
\* concatenation, whatever the alphanumeric runs at the boundary are.
C14_WhitespaceJoin ==
  (JoinerRan /\ (EndsSpace(Acc) \/ StartsSpace(Chunk))) => Joined = Acc \o Chunk

\* "e " joined with "Se": a capitalized word after a space gets no second space
C14_Witness ==
  JoinerRan /\ Acc = <<"e", " ">> /\ Chunk = <<"S", "e">> /\ Joined = <<"e", " ", "S", "e">>

\* C15: TokenJoiner space insertion: when both boundary characters are
\* alphanumeric and the two boundary runs are not both all uppercase letters
\* and digits, exactly one space is inserted, whether or not the chunk starts
\* with a capitalized word.
C15_SpaceInserted ==
  (/\ JoinerRan /\ EndsAlnum(Acc) /\ StartsAlnum(Chunk)
   /\ ~(AllCapsOrDigits(LastToken(Acc)) /\ AllCapsOrDigits(FirstToken(Chunk))))
    => Joined = Acc \o <<" ">> \o Chunk

\* a lowercase run joined with a lowercase run
C15_Witness ==
  JoinerRan /\ Acc = <<"e", "e">> /\ Chunk = <<"e">> /\ Joined = <<"e", "e", " ", "e">>

\* C16: TokenJoiner is pure and total: it gives a result for every pair of
\* strings and touches nothing but the text it returns; an empty chunk
\* gives the accumulated text, an empty accumulated text gives the chunk, and
\* a boundary character that is neither alphanumeric nor whitespace gives the
\* plain concatenation.
IsPunct(u) == ~IsAlnum(u) /\ ~IsSpace(u)
PunctBoundary(a, c) == a # <<>> /\ c # <<>> /\ (IsPunct(a[Len(a)]) \/ IsPunct(c[1]))
C16_PureTotal ==
  JoinerRan =>
    /\ Joined \in Seq(Alphabet)
    /\ messages = SetLast(lastRun.m, [lastRun.m[Len(lastRun.m)] EXCEPT !.content = Joined])
    /\ stepIdxRef = lastRun.r
    /\ Chunk = <<>> => Joined = Acc
    /\ Acc = <<>> => Joined = Chunk
    /\ PunctBoundary(Acc, Chunk) => Joined = Acc \o Chunk

\* "e." joined with "B": punctuation at the boundary
C16_Witness ==
  JoinerRan /\ Acc = <<"e", ".">> /\ Chunk = <<"B">> /\ Joined = <<"e", ".", "B">>

\* C17: in chat mode, after one send, the frames ready, token("Hel"), token("lo"), done on
\* an empty assistant placeholder leave the assistant content "Hel lo": one
\* space at the lowercase alphanumeric boundary.  (The history reload that
\* done starts may replace the transcript later.)
HelLo == <<"H","e","l"," ","l","o">>
Frames == [k \in 1..Len(trace) |-> trace[k].ev]
ScenarioAHandled ==
  Len(streams) = 1 /\ Frames = ScenarioA /\ queue = <<>> /\ lastRun.o.op # "set"
C18_TokenUsesJoiner ==
  JoinRan => Joined = concatChunk(Acc, Chunk)

\* C19: replaceOrPushAssistant(content, {pending, completed, key}): if the
\* last message is an assistant message with empty content it is overwritten
\* in place and key is registered to its index; otherwise exactly one
\* assistant message is appended and key is registered to the new last
\* index.  Either way the other messages are unchanged and key resolves to
\* the last index.
KeyIsLast(o, ref, m) ==
  o.key # NoKey => (Registered(ref, o.key) /\ ref[o.key] = Len(m) - 1)
C19_ReplaceOrPush ==
  [][Runs("replaceOrPush") =>
       LET o == Head(queue)
           step == AssistantMsg(o.content, o.pending, o.completed) IN
         /\ IF LastIsEmptyAssistant(messages)
            THEN messages' = SetLast(messages, step)
            ELSE messages' = Append(messages, step)
         /\ KeyIsLast(o, stepIdxRef', messages')]_vars

\* C20: pushAssistantMsg lengthens the transcript by exactly one assistant
\* message placed last and leaves every earlier message unchanged, also when
\* the last message is an empty assistant placeholder; a key given to it
\* resolves to the new last index.
C20_PushAppends ==
  [][Runs("push") =>
       LET o == Head(queue) IN
         /\ messages' = Append(messages, AssistantMsg(o.content, o.pending, FALSE))
         /\ KeyIsLast(o, stepIdxRef', messages')]_vars

\* pushAssistantMsg has just run with a key while the empty placeholder was
\* the message before the last one: the push before it did not fill the
\* placeholder, and the key resolves to the message just appended
C20_Witness ==
  /\ lastRun.o.op = "push" /\ lastRun.o.key # NoKey
  /\ Len(lastRun.m) >= 2
  /\ lastRun.m[Len(lastRun.m) - 1] = AssistantMsg(<<>>, FALSE, FALSE)
  /\ messages = Append(lastRun.m, AssistantMsg(lastRun.o.content, lastRun.o.pending, FALSE))
  /\ Registered(stepIdxRef, lastRun.o.key)
  /\ stepIdxRef[lastRun.o.key] = Len(messages) - 1

\* C21: when an error frame arrives while the last message is an empty
\* assistant placeholder, the content of the placeholder becomes a warning,
\* the detail of the payload if it has one and a generic text otherwise, in
\* every streaming path and also when the payload is not valid JSON; no
\* other message is removed or replaced.
ErrorFrame ==
  /\ Len(trace') = Len(trace) + 1
  /\ trace'[Len(trace')].ev.type = "error"
GenericWarnings == {Warning, WarningOf(StreamError)}
WarningsFor(d) ==
  IF Field(d, "detail") # <<>> THEN {WarningOf(Field(d, "detail"))} ELSE GenericWarnings
Warned(m, w) == SetLast(m, [m[Len(m)] EXCEPT !.content = w])
C21_ErrorFillsPlaceholder ==
  [][(ErrorFrame /\ LastIsEmptyAssistant(Effective.m)) =>
       \E w \in WarningsFor(trace'[Len(trace')].ev.data) :
          Flush(messages', stepIdxRef', queue').m = Warned(Effective.m, w)]_vars

\* C22: in eda mode a send with no attached file and a prompt that is not
\* parsable data produces a single instructional assistant message, placed
\* last, and makes no backend call; no status step is created.
RECURSIVE Count(_, _)
Count(m, content) ==
  IF m = <<>> THEN 0
  ELSE (IF Head(m).role = "assistant" /\ Head(m).content = content THEN 1 ELSE 0)
       + Count(Tail(m), content)
SendStep == Len(trace') = Len(trace) + 1 /\ trace'[Len(trace')].ev.type = "send"
PlainSend ==
  /\ SendStep
  /\ ~trace'[Len(trace')].ev.data.file
  /\ trace'[Len(trace')].ev.data.prompt.json = "invalid"
C22_EdaHintOnly ==
  [][PlainSend =>
       LET after == Flush(messages', stepIdxRef', queue').m IN
         /\ streams' = streams
         /\ Count(after, EdaHint) = Count(messages, EdaHint) + 1
         /\ after[Len(after)] = AssistantMsg(EdaHint, FALSE, FALSE)
         /\ Count(after, StartingEda) = Count(messages, StartingEda)
         /\ \A k \in 1..Len(after) : after[k].pending => (k <= Len(messages) /\ messages[k].pending)]_vars

\* The send of "q" with no file has been rendered: the hint is last, no
\* request was made
C22_Witness ==
  /\ Len(trace) = 1 /\ trace[1].ev = Ev("send", [file |-> FALSE, prompt |-> Raw(UserText)])
  /\ queue = <<>> /\ streams = <<>>
  /\ messages # <<>> /\ messages[Len(messages)].content = EdaHint

\* C23: in eda mode a successful backend call produces its messages in a
\* fixed order: the status step, pending and then completed, the chart
\* messages in the order of the response, then the table message, the
\* descriptive-statistics message, the transformation message and the
\* insights message, each only if the response has that part; an absent part
\* produces no message and does not change the order of the others.
Part(content, part) ==
  [role |-> "assistant", content |-> content, pending |-> FALSE,
   completed |-> FALSE, attachments |-> "absent", part |-> part]
ChartParts(res) == [i \in 1..Len(res.charts) |-> Part(ChartText(i, res.charts[i]), "figure")]
TableParts(res) ==
  IF res.top_n = "titled" THEN <<Part(<<"t">>, "dataTable")>>
  ELSE IF res.top_n = "untitled" THEN <<Part(TopNTable, "dataTable")>>
  ELSE <<>>
StatsParts(res) == IF res.stats THEN <<Part(Statistics, "stats")>> ELSE <<>>
SqlParts(res) == IF res.sql THEN <<AssistantMsg(SqlMd, FALSE, FALSE)>> ELSE <<>>
InsightParts(res) ==
  IF res.insights = "findings" THEN <<AssistantMsg(KeyFindings, FALSE, FALSE)>>
  ELSE IF res.insights = "empty" THEN <<AssistantMsg(<<>>, FALSE, FALSE)>>
  ELSE <<>>
ResponseStep == Len(trace') = Len(trace) + 1 /\ trace'[Len(trace')].ev.type = "response"
C23_EdaOrder ==
  [][ResponseStep =>
       LET res == trace'[Len(trace')].ev.data
           before == Effective.m
           after == Flush(messages', stepIdxRef', queue').m IN
         \E k \in 1..Len(before) :
            /\ before[k] = AssistantMsg(StartingEda, TRUE, FALSE)
            /\ after = [before EXCEPT ![k] = AssistantMsg(EdaComplete, FALSE, TRUE)]
                         \o ChartParts(res) \o TableParts(res) \o StatsParts(res)
                         \o SqlParts(res) \o InsightParts(res)]_vars

\* C24: if the history fetch started by chat done fails, the failure is
\* swallowed: the transcript stays as it was, no error is shown, and the
\* streaming flag, cleared when done was handled, stays as it is.
LoadsHistory == Len(queue') = Len(queue) + 1 /\ queue'[Len(queue')].op = "set"
ReloadFails ==
  \E f \in fetches : f.kind = "reload" /\ fetches' = fetches \ {f} /\ ~LoadsHistory
ChatDone ==
  /\ Len(trace') = Len(trace) + 1
  /\ trace'[Len(trace')].ev.type = "done"
  /\ streams[trace'[Len(trace')].i].mode = "chat"
C24_ReloadFailureSwallowed ==
  [][/\ ChatDone => ~isStreaming'
     /\ ReloadFails =>
          /\ Flush(messages', stepIdxRef', queue').m = Effective.m
          /\ messages' = messages
          /\ isStreaming' = isStreaming]_vars

\* Scenario A has run, the reload has failed: the optimistic transcript with
\* "Hel lo" is still shown
C24_Witness ==
  /\ Frames = ScenarioA /\ Len(streams) = 1 /\ streams[1].status = "done"
  /\ fetches = {} /\ queue = <<>> /\ lastRun.o.op = "token"
  /\ ~isStreaming
  /\ messages = HistoryView(InitialServer[threadId], "init")
                  \o <<UserMsg(UserText), AssistantMsg(HelLo, FALSE, FALSE)>>

\* C25: on chat done with a successful history fetch only the optimistic
\* tail created since the send began is replaced by the authoritative
\* messages: every message that preceded the send keeps its role, its
\* content and its attachments.
BeforeSend == HistoryView(InitialServer[threadId], "init")
HasFiles(msg) == msg.attachments = "files"
Kept(a, b) ==
  a.role = b.role /\ a.content = b.content /\ (HasFiles(a) <=> HasFiles(b))
C25_ReloadKeepsEarlierMessages ==
  [][Runs("set") =>
       \A k \in 1..Len(BeforeSend) :
          k <= Len(messages') /\ Kept(BeforeSend[k], messages'[k])]_vars

\* C26: once the terminal frame (done) of a stream has been handled, no
\* frame delivered later on that same stream changes any message of the
\* transcript.
LateFrame ==
  /\ Len(trace') = Len(trace) + 1
  /\ streams[trace'[Len(trace')].i].status = "done"
C26_NothingAfterDone ==
  [][LateFrame => Flush(messages', stepIdxRef', queue').m = Effective.m]_vars

\* C27: a token frame modifies at most one message, the last one, and only
\* if it is an assistant message; every other message is unchanged, and if
\* the last message is a user message (or there is none) the token changes
\* nothing.
C27_TokenTouchesLastOnly ==
  [][Runs("token") =>
       IF LastIsAssistant(messages)
       THEN /\ Len(messages') = Len(messages)
            /\ \A k \in 1..(Len(messages) - 1) : messages'[k] = messages[k]
            /\ messages'[Len(messages)].role = "assistant"
       ELSE messages' = messages]_vars

\* A token updater has run on a transcript whose last message is a user
\* message (an upload stream on the loaded history) and has left it alone
C27_Witness ==
  /\ lastRun.o.op = "token" /\ lastRun.o.content # <<>>
  /\ lastRun.m # <<>> /\ lastRun.m[Len(lastRun.m)].role = "user"
  /\ messages = lastRun.m

\* C28: every accepted send appends the user message and then an empty
\* assistant placeholder to the transcript before any frame of the stream
\* it opens is handled, also when the send carries file attachments.
C28_SendAppendsPlaceholder ==
  [][SendAccepted =>
       LET after == Flush(messages', stepIdxRef', queue').m IN
         /\ flushing'
         /\ Len(after) = Len(messages) + 2
         /\ SubSeq(after, 1, Len(messages)) = messages
         /\ after[Len(after) - 1].role = "user"
         /\ after[Len(after)] = AssistantMsg(<<>>, FALSE, FALSE)]_vars

\* C29: in deep_research and reasoning modes ready creates exactly one
\* status step, pending, which absorbs the empty placeholder; the step stays
\* pending until done; done marks it completed and not pending; the
\* transcript never holds two status steps for one send.
StatusTexts == {StartingResearch, ResearchComplete, StartingReasoning, ReasoningComplete}
IsStatus(msg) == msg.role = "assistant" /\ msg.content \in StatusTexts
StatusSteps(m) == Cardinality({k \in 1..Len(m) : IsStatus(m[k])})
PendingStatus(m) == {k \in 1..Len(m) : IsStatus(m[k]) /\ m[k].pending}
StepFrame(type) ==
  /\ Len(trace') = Len(trace) + 1
  /\ trace'[Len(trace')].ev.type = type
  /\ streams[trace'[Len(trace')].i].mode \in StepModes
StartingOf(mode) == IF mode = "reasoning" THEN StartingReasoning ELSE StartingResearch
ReadyCreatesStatus ==
  (StepFrame("ready") /\ LastIsEmptyAssistant(Effective.m)) =>
     Flush(messages', stepIdxRef', queue').m =
       SetLast(Effective.m,
               AssistantMsg(StartingOf(streams[trace'[Len(trace')].i].mode), TRUE, FALSE))
DoneCompletesStatus ==
  (StepFrame("done") /\ StatusSteps(Effective.m) > 0) =>
     LET after == Flush(messages', stepIdxRef', queue').m IN
       /\ PendingStatus(after) = {}
       /\ \E k \in 1..Len(after) : IsStatus(after[k]) /\ after[k].completed
OneStatusPerSend ==
  StatusSteps(Flush(messages', stepIdxRef', queue').m) <= Len(streams')
C29_StatusLifecycle ==
  [][ReadyCreatesStatus /\ DoneCompletesStatus /\ OneStatusPerSend]_vars

\* C30: no frame payload is fatal: whatever the type and the data of a
\* frame, text that is not valid JSON included, the handler completes and
\* the exchange can still finish.  In the Research view a done frame with
\* malformed data still ends the run: busy becomes false and the stream is
\* closed.
ViewDone ==
  /\ research.sse = "open"
  /\ Len(trace') = Len(trace) + 1
  /\ trace'[Len(trace')].ev.type = "done"
C30_DoneAlwaysEndsRun ==
  [][ViewDone => (~research'.busy /\ research'.sse = "closed")]_vars

\* C31: every accepted send eventually re-enables the send control, sending
\* becomes false, whatever the outcome: a stream opened, a transport error,
\* a failed upload, the short-circuit of eda or a failed eda call.
C31_SendControlReenabled == sending ~> ~sending

\* The eda call has been rejected, its error message is shown and the send
\* control is enabled again
C31_Witness ==
  /\ \E i \in DOMAIN streams : streams[i].mode = "eda" /\ streams[i].status = "failed"
  /\ ~sending /\ queue = <<>>
  /\ messages # <<>> /\ messages[Len(messages)].content = EdaError

\* C32: a registration made while one frame is handled is visible when the
\* next frame of the same stream is handled, also when both are handled
\* before the queued transcript updates are applied: a web_research frame
\* that comes right after generate_query finds the key web and edits the
\* placeholder in place instead of appending a second message.
WebRightAfterQuery ==
  /\ trace # <<>>
  /\ Len(trace') = Len(trace) + 1
  /\ trace'[Len(trace')].ev.type = "web_research"
  /\ trace[Len(trace)].ev.type = "generate_query"
  /\ trace[Len(trace)].i = trace'[Len(trace')].i
  /\ streams[trace[Len(trace)].i].mode = "deep_research"
C32_RegistrationVisibleToNextFrame ==
  [][WebRightAfterQuery =>
       /\ Len(queue') > Len(queue)
       /\ queue'[Len(queue) + 1].op = "replaceStep"
       /\ queue'[Len(queue) + 1].key = "web"
       /\ Len(Flush(messages', stepIdxRef', queue').m) = Len(Effective.m) + 1]_vars

\* C33: until the terminal frame of a send, the frames and the transport
\* error of its stream modify only messages created by that send: the
\* messages the transcript held when the send was accepted (here the loaded
\* history of the thread), and every user message, stay as they are.
StreamStep(i) ==
  /\ Active(i)
  /\ \/ Len(trace') = Len(trace) + 1 /\ trace'[Len(trace')].i = i
     \/ streams'[i].status = "failed"
C33_OnlyOwnMessagesEdited ==
  [][StreamStep(1) =>
       LET before == Effective.m
           after  == Flush(messages', stepIdxRef', queue').m
       IN  /\ \A k \in 1..Len(BeforeSend) :
                k <= Len(before) => k <= Len(after) /\ after[k] = before[k]
           /\ \A k \in 1..Len(before) :
                before[k].role = "user" => k <= Len(after) /\ after[k] = before[k]]_vars

\* C34: during a send, between its acceptance and its terminal frame and
\* with no thread switch, every key of the step registry resolves to an
\* index below the transcript length, and the message at that index is an
\* assistant message.
DuringSend == Len(streams) = 1 /\ Active(1) /\ navs = 0
C34_RegisteredKeysResolve ==
  DuringSend =>
    \A key \in DOMAIN stepIdxRef :
       /\ stepIdxRef[key] < Len(messages)
       /\ messages[stepIdxRef[key] + 1].role = "assistant"

\* C35: no message is ever both pending and completed, whatever sequence of
\* pushAssistantMsg, replaceOrPushAssistant and replaceStep updates the
\* handlers have queued.
C35_NeverPendingAndCompleted ==
  \A k \in 1..Len(messages) : ~(messages[k].pending /\ messages[k].completed)

\* replaceStep has just marked a pending step message completed
C35_Witness ==
  /\ lastRun.o.op = "replaceStep" /\ lastRun.o.completed
  /\ Registered(lastRun.r, lastRun.o.key)
  /\ lastRun.r[lastRun.o.key] < Len(lastRun.m)
  /\ lastRun.m[lastRun.r[lastRun.o.key] + 1].pending
  /\ Len(messages) = Len(lastRun.m)
  /\ messages[lastRun.r[lastRun.o.key] + 1].completed
  /\ ~messages[lastRun.r[lastRun.o.key] + 1].pending

\* C36: in deep_research mode, after the frames ready, a complete round
\* (generate_query, web_research, summarize, reflection), finalize and done,
\* no message is pending: every anticipatory placeholder has been replaced
\* by the result of its step.
StillPending(m) == {k \in 1..Len(m) : m[k].pending}
C36_NoPlaceholderLeftAfterDone ==
  ScenarioBHandled => StillPending(messages) = {}

\* C37: when a send ends abnormally (a transport error or an error frame of
\* a streaming feature after ready, or a rejected backend call in eda mode)
\* no message is left pending once the updates are rendered.
AfterReady(i, a) == a \in 1..Len(trace) /\ trace[a].i = i /\ trace[a].ev.type = "ready"
AbnormalEnd(i) ==
  /\ i \in 1..Len(streams)
  /\ queue = <<>>
  /\ \/ streams[i].mode = "eda" /\ streams[i].status = "failed"
     \/ /\ streams[i].mode \in Modes
        /\ \E a \in 1..Len(trace) :
             /\ AfterReady(i, a)
             /\ \/ streams[i].status = "failed"
                \/ \E b \in (a + 1)..Len(trace) :
                     trace[b].i = i /\ trace[b].ev.type = "error"
C37_NothingPendingAfterFailure ==
  (\E i \in 1..Len(streams) : AbnormalEnd(i)) => StillPending(messages) = {}

\* C38: in the Research view run() does nothing while a run is busy, so a
\* run starts only when no research stream is open; busy returns to false
\* when the stream delivers done or fails; and after done no later frame
\* changes the event list or the summary.
RunStarts == research'.runs = research.runs + 1
ViewFrame == Len(trace') = Len(trace) + 1
ViewFails == research.sse = "open" /\ research'.sse = "failed"
DoneDelivered ==
  \E a \in 1..Len(trace) : trace[a].i = research.runs /\ trace[a].ev.type = "done"
OneStreamAtATime == RunStarts => ~research.busy /\ research.sse # "open"
BusyEnds == (ViewDone \/ ViewFails) => ~research'.busy
NothingAfterDone ==
  (ViewFrame /\ DoneDelivered) =>
     research'.events = research.events /\ research'.summary = research.summary
C38_OneRunAtATime ==
  [][OneStreamAtATime /\ BusyEnds /\ NothingAfterDone]_vars

\* C39: the debug event log never holds more than 50 entries and is ordered
\* newest first: it contains exactly the min(n, 50) most recent of the n
\* frames that deep_research and reasoning streams have delivered.
IsLogged(e) == e.i # 0 /\ streams[e.i].mode \in StepModes
Recent(frames) ==
  [j \in 1..(IF Len(frames) <= LogCap THEN Len(frames) ELSE LogCap) |->
     LogEntry(frames[Len(frames) - j + 1].ev)]
C39_LogHoldsMostRecent ==
  /\ Len(debugEvents) <= LogCap
  /\ debugEvents = Recent(SelectSeq(trace, IsLogged))

\* C39, amended: the log never holds more than 50 entries and is ordered
\* newest first: it contains exactly the min(n, 50) most recent of the n
\* frames that deep_research and reasoning streams have delivered since the
\* log was last cleared.
LastClear ==
  LET c == {a \in 1..Len(trace) : trace[a].ev.type = "clear"}
  IN  IF c = {} THEN 0 ELSE CHOOSE a \in c : \A b \in c : b <= a
SinceClear == SubSeq(trace, LastClear + 1, Len(trace))
C39_LogHoldsMostRecentSinceClear ==
  /\ Len(debugEvents) <= LogCap
  /\ debugEvents = Recent(SelectSeq(SinceClear, IsLogged))

\* More than 50 frames have been logged since the log was cleared: the log
\* is full and its first entry is the frame delivered last
C39_Witness ==
  /\ LastClear > 0
  /\ Len(SelectSeq(SinceClear, IsLogged)) > LogCap
  /\ Len(debugEvents) = LogCap
  /\ debugEvents[1] = LogEntry(trace[Len(trace)].ev)

====
